---------------------------- MODULE Spec2Model ----------------------------
(***************************************************************************)
(* Model of doggo-games/src/DoggoGames.tsx: the memory-matching game       *)
(* (createMemoryDeck, MemoryGame) and the tile puzzle (makeTiles, shuffle, *)
(* isSolved, JigsawPuzzle).                                                *)
(*                                                                         *)
(* Arrays are functions over 0..n-1, so that indices are the indices of    *)
(* the source.  A React event handler, or a timer callback, together with  *)
(* the render and the effects it triggers is one step: React flushes the   *)
(* state updates and the passive effects of a handler before the next      *)
(* event is dispatched.                                                    *)
(***************************************************************************)
EXTENDS Integers, Sequences, FiniteSets, TLC

VARIABLES
  \* ---- createMemoryDeck called on drawn inputs (SpecDeck)
  callPhotos,   \* argument allPhotos
  callPairs,    \* argument pairs
  callDeck,     \* the returned deck (<<>> before the call)
  callDone,     \* the call has returned
  \* ---- MemoryGame component (SpecMemory)
  mounted,      \* the component is mounted
  photos,       \* prop photos
  difficulty,   \* useState difficulty
  deck,         \* useState deck
  flipped,      \* useState flipped: indices of the face-up, unresolved cards
  hasStarted,   \* useState hasStarted
  finished,     \* useState finished
  moves,        \* useState moves
  locked,       \* useState locked
  lockedRef,    \* useRef lockedRef.current
  timers,       \* pending window.setTimeout callbacks registered in timeoutsRef
  elapsed,      \* useStopwatch elapsed
  best,         \* localStorage doggo_mem_best_<difficulty>
  cancelled,    \* how many pending timeouts the last step's clearTimers cancelled
  \* ---- JigsawPuzzle component (SpecPuzzle)
  puzPhotos,    \* prop photos
  grid,         \* useState grid
  campaign,     \* useState campaign: index, solved
  img,          \* useState img
  tiles,        \* useState tiles
  selectedOrder, \* useState selectedOrder
  dragging,     \* useState dragging: active, fromOrder, hoverOrder, didMove
  prevSolvedRef, \* useRef prevSolvedRef.current
  showCongrats, \* useState showCongrats
  progStore,    \* localStorage, the items under the keys doggo_puzzle_prog_<hash>
  \* ---- the shuffle of startNew, one loop iteration per step (SpecShuffle)
  runGrid,      \* argument newGrid
  runArr,       \* the copy a of shuffle
  runI,         \* the loop index i of shuffle
  runTiles,     \* the tiles startNew sets (<<>> while the loop runs)
  runDone,      \* startNew has set the tiles
  \* ---- onSwap called on drawn inputs (SpecSwap)
  swapTiles,    \* the tiles before the first call
  swapFrom,     \* argument fromOrder
  swapTo,       \* argument toOrder
  swapOut,      \* the tiles after the calls made so far
  swapCalls,    \* how many times onSwap(swapFrom, swapTo) has been called
  \* ---- isSolved called on drawn inputs (SpecSolved)
  solvedTiles,  \* argument tiles
  solvedOut,    \* the value returned
  solvedDone,   \* the call has returned
  \* ---- loadCampaign called on drawn inputs (SpecLoad)
  loadPhotos,   \* the prop photos of the component
  loadItem,     \* the localStorage item under progKey
  loadOut,      \* the campaign state returned
  loadDone,     \* the call has returned
  \* ---- hashPhotos called on two drawn photo lists (SpecHash)
  hashLists,    \* the two photo lists
  hashKeys,     \* progKey for each of them
  hashDone,     \* both calls have returned
  \* ---- DoggoGames and PhotoLoader (SpecPhotos)
  appPhotos,    \* useState photos of DoggoGames
  userStore,    \* localStorage, the item under doggo_user_photos_v1
  ldFiles,      \* PhotoLoader.onChange: files, each given by its data URL
  ldReads,      \* whether fileToDataUrl resolved, for the files read so far
  ldUrls,       \* PhotoLoader.onChange: dataUrls
  ldBusy,       \* an onChange call is waiting for a file
  addCalled,    \* the last onChange call that returned has called onAdd
  addUrls,      \* the argument of the last call of addPhotos
  addThrew      \* the last call of addPhotos threw

deckVars == <<callPhotos, callPairs, callDeck, callDone>>
memVars  == <<mounted, photos, difficulty, deck, flipped, hasStarted, finished,
              moves, locked, lockedRef, timers, elapsed, best, cancelled>>
puzVars  == <<puzPhotos, grid, campaign, img, tiles, selectedOrder, dragging,
              prevSolvedRef, showCongrats, progStore>>
runVars  == <<runGrid, runArr, runI, runTiles, runDone>>
swapVars == <<swapTiles, swapFrom, swapTo, swapOut, swapCalls>>
solvedVars == <<solvedTiles, solvedOut, solvedDone>>
loadVars == <<loadPhotos, loadItem, loadOut, loadDone>>
hashVars == <<hashLists, hashKeys, hashDone>>
appVars  == <<appPhotos, userStore, ldFiles, ldReads, ldUrls, ldBusy, addCalled,
              addUrls, addThrew>>
callVars == <<solvedVars, loadVars, hashVars, appVars>>
vars     == <<deckVars, memVars, puzVars, runVars, swapVars, callVars>>
\* what the steps of one part of the program leave alone
notDeckVars == <<memVars, puzVars, runVars, swapVars, callVars>>
notMemVars  == <<deckVars, puzVars, runVars, swapVars, callVars>>
notPuzVars  == <<deckVars, memVars, runVars, swapVars, callVars>>
notRunVars  == <<deckVars, memVars, puzVars, swapVars, callVars>>
notSwapVars == <<deckVars, memVars, puzVars, runVars, callVars>>
notSolvedVars == <<deckVars, memVars, puzVars, runVars, swapVars, loadVars, hashVars,
                   appVars>>
notLoadVars == <<deckVars, memVars, puzVars, runVars, swapVars, solvedVars, hashVars,
                 appVars>>
notHashVars == <<deckVars, memVars, puzVars, runVars, swapVars, solvedVars, loadVars,
                 appVars>>
notAppVars  == <<deckVars, memVars, puzVars, runVars, swapVars, solvedVars, loadVars,
                 hashVars>>

---------------------------------------------------------------------------
(* Bounds *)

\* createMemoryDeck is called with 1..MaxPairs pairs
MaxPairs == 3
\* the pair counts of DIFFICULTIES are divided by PairsScale, which keeps the
\* decks of a game at 2 and 4 cards
PairsScale == 4
\* the moves counter stops the game from taking a further second flip here
MaxMoves == 4
\* the stopwatch is not advanced beyond this value
MaxElapsed == 1
\* pairs of the deck of the single game of SpecGame
GamePairs == 3
\* startNew is run step by step, and onSwap is called, for the grid sizes
\* 2..MaxGrid
MaxGrid == 3
\* in the puzzle that is played the shuffle draws its random index j from all
\* of 0..i while i <= MaxDraw, and draws j = i above that
MaxDraw == 1
\* the same for the shuffles that make the boards onSwap is called on
SwapDraw == 3
\* the player touches the cells 0..MaxTouch-1 and the last cell of the board
MaxTouch == 2
\* the width and height of a grid cell on the screen
CellSize == 10
MaxRefLen == 2
MaxHashPhotos == 2
MaxLoadPhotos == 2

\* photo references
InitialPhotos == <<"maci1", "maci2">>
UserPhoto == "user1"
\* a reference whose addition to InitialPhotos leaves hashPhotos unchanged
CollidingPhoto == "k2jacgj"
PhotoNames == {"maci1", "maci2"}

---------------------------------------------------------------------------
(* Arrays *)

Range(f) == {f[x] : x \in DOMAIN f}

ArrLen(a) == Cardinality(DOMAIN a)

\* [a[i], a[j]] = [a[j], a[i]]
SwapAt(a, i, j) == [a EXCEPT ![i] = a[j], ![j] = a[i]]

---------------------------------------------------------------------------
(* createMemoryDeck *)

DifficultyKey == {"easy", "medium", "hard"}

DIFFICULTIES ==
  [easy   |-> [pairs |-> 6 \div PairsScale],
   medium |-> [pairs |-> 8 \div PairsScale],
   hard   |-> [pairs |-> 10 \div PairsScale]]

\* unique.push(allPhotos[i % allPhotos.length]); allPhotos is a sequence 1..len
UniqueImgs(allPhotos, pairs) ==
  [i \in 0..(pairs - 1) |-> allPhotos[(i % Len(allPhotos)) + 1]]

NewCard(pairIdx, image) ==
  [id |-> pairIdx, img |-> image, index |-> -1, flipped |-> FALSE, matched |-> FALSE]

\* unique.flatMap((img, pairIdx) => [card, card])
PairedCards(unique) ==
  [k \in 0..(2 * ArrLen(unique) - 1) |-> NewCard(k \div 2, unique[k \div 2])]

\* for (let i = cards.length - 1; i > 0; i--) { j = floor(random() * (i + 1)); swap }
\* the set of the arrays the loop can end with, entered at index i
RECURSIVE DeckShuffle(_, _)
DeckShuffle(cards, i) ==
  IF i <= 0 THEN {cards}
  ELSE UNION {DeckShuffle(SwapAt(cards, i, j), i - 1) : j \in 0..i}

\* mutant: the position is counted from 1
AssignIndex_FromOne(cards) == [i \in DOMAIN cards |-> [cards[i] EXCEPT !.index = i + 1]]

\* cards.forEach((c, i) => (c.index = i))
AssignIndex(cards) == [i \in DOMAIN cards |-> [cards[i] EXCEPT !.index = i]]

createMemoryDeck(allPhotos, pairs) ==
  LET cards == PairedCards(UniqueImgs(allPhotos, pairs))
  IN  {AssignIndex(c) : c \in DeckShuffle(cards, ArrLen(cards) - 1)}


---------------------------------------------------------------------------
(* SpecDeck: createMemoryDeck applied to drawn arguments *)

\* the non-empty photo lists of length 1..2
PhotoLists ==
  {<<a>> : a \in PhotoNames} \cup {<<a, b>> : a \in PhotoNames, b \in PhotoNames}

InitDeckCall ==
  /\ callPhotos \in PhotoLists
  /\ callPairs \in 1..MaxPairs
  /\ callDeck = <<>>
  /\ callDone = FALSE

CallCreateMemoryDeck ==
  /\ ~callDone
  /\ callDeck' \in createMemoryDeck(callPhotos, callPairs)
  /\ callDone' = TRUE
  /\ UNCHANGED <<callPhotos, callPairs>>
  /\ UNCHANGED notDeckVars

---------------------------------------------------------------------------
(* MemoryGame *)

DEFAULT_PHOTOS == InitialPhotos

\* localStorage item: <<>> when absent, <<v>> when String(v) is stored
NoItem == <<>>
\* Number(localStorage.getItem(bestKey) || 0)
bestMs(store, d) == IF store[d] = NoItem THEN 0 ELSE store[d][1]

\* the state of the component as the current render sees it
Mem ==
  [difficulty |-> difficulty, deck |-> deck, flipped |-> flipped,
   hasStarted |-> hasStarted, finished |-> finished, moves |-> moves,
   locked |-> locked, lockedRef |-> lockedRef, timers |-> timers,
   elapsed |-> elapsed, best |-> best]

SetMem(m) ==
  /\ difficulty' = m.difficulty
  /\ deck' = m.deck
  /\ flipped' = m.flipped
  /\ hasStarted' = m.hasStarted
  /\ finished' = m.finished
  /\ moves' = m.moves
  /\ locked' = m.locked
  /\ lockedRef' = m.lockedRef
  /\ timers' = m.timers
  /\ elapsed' = m.elapsed
  /\ best' = m.best

\* mutant: only the state is set, the ref the click handler reads is not
setLocked_StateOnly(m, v) == [m EXCEPT !.locked = v]

\* setLocked(v): the ref and the state together
setLocked(m, v) == [m EXCEPT !.lockedRef = v, !.locked = v]

\* a pending timeout: the callback's kind, its captured indices a and b, its
\* delay; superseded records that the game it was scheduled in is over
Timer(kind, a, b, ms) ==
  [kind |-> kind, a |-> a, b |-> b, ms |-> ms, superseded |-> FALSE]

\* addTimer(fn, ms)
addTimer(m, t) == [m EXCEPT !.timers = @ \cup {t}]

\* mutant: the registered timeouts are forgotten but not cancelled
clearTimers_NoCancel(ts) == ts

\* clearTimers(): clearTimeout of every registered id
clearTimers(ts) == {}

\* the timers of a game that ends (new game, unmount) are superseded
Supersede(ts) == {[t EXCEPT !.superseded = TRUE] : t \in ts}

\* the photo lists the prop photos takes
PhotoStates == {InitialPhotos, Append(InitialPhotos, UserPhoto)}

\* startNew(d): the decks createMemoryDeck(safe, pairs) can return
safePhotos(ph) ==
  LET src == IF Len(ph) > 0 THEN ph ELSE DEFAULT_PHOTOS
  IN  IF Len(src) > 0 THEN src ELSE <<"placeholder">>

DeckTable ==
  [ph \in PhotoStates |->
     [d \in DifficultyKey |-> createMemoryDeck(safePhotos(ph), DIFFICULTIES[d].pairs)]]

startNewDecks(ph, d) == DeckTable[ph][d]

startNew(m, newDeck) ==
  LET m1 == [m EXCEPT !.timers = clearTimers(Supersede(@))]
      m2 == setLocked(m1, FALSE)
  IN  [m2 EXCEPT !.deck = newDeck, !.flipped = <<>>, !.hasStarted = FALSE,
                 !.finished = FALSE, !.moves = 0, !.elapsed = 0]

allMatched(d) == \A i \in DOMAIN d : d[i].matched

\* the finish effect (deps deck, elapsed, bestMs, bestKey), run with the
\* values of the render c
finishEffect(c) ==
  IF ArrLen(c.deck) = 0 THEN c
  ELSE IF allMatched(c.deck)
       THEN [c EXCEPT !.finished = TRUE,
                      !.best[c.difficulty] =
                         IF bestMs(c.best, c.difficulty) = 0
                            \/ c.elapsed < bestMs(c.best, c.difficulty)
                         THEN <<c.elapsed>> ELSE @]
       ELSE c

\* mutant: a face-up card is not rejected
clickRejected_FaceUpPasses(m, idx) ==
  \/ m.finished \/ m.lockedRef
  \/ Len(m.flipped) >= 2
  \/ m.deck[idx].matched

\* the checks at the head of onCardClick
clickRejected(m, idx) ==
  \/ m.finished \/ m.lockedRef
  \/ Len(m.flipped) >= 2
  \/ m.deck[idx].matched \/ m.deck[idx].flipped

MatchDelay == 200
MismatchDelay == 600

onCardClick(m, idx) ==
  IF clickRejected(m, idx) THEN m
  ELSE
    LET newDeck    == [m.deck EXCEPT ![idx].flipped = TRUE]
        newFlipped == Append(m.flipped, idx)
        m1 == [m EXCEPT !.hasStarted = TRUE, !.deck = newDeck,
                        !.flipped = newFlipped]
    IN  IF Len(newFlipped) = 2
        THEN LET a  == newFlipped[1]
                 b  == newFlipped[2]
                 m2 == setLocked([m1 EXCEPT !.moves = @ + 1], TRUE)
             IN  IF newDeck[a].id = newDeck[b].id
                 THEN addTimer(m2, Timer("match", a, b, MatchDelay))
                 ELSE addTimer(m2, Timer("mismatch", a, b, MismatchDelay))
        ELSE m1

\* mutant: the matched pair is turned face-down
matchCallback_FaceDown(m, t) ==
  LET m1 == [m EXCEPT !.deck = [@ EXCEPT ![t.a].matched = TRUE,
                                         ![t.a].flipped = FALSE,
                                         ![t.b].matched = TRUE,
                                         ![t.b].flipped = FALSE],
                      !.flipped = <<>>]
  IN  [m1 EXCEPT !.lockedRef = FALSE, !.locked = FALSE]

\* mutant: only the first card of the pair is marked
matchCallback_FirstOnly(m, t) ==
  LET m1 == [m EXCEPT !.deck = [@ EXCEPT ![t.a].matched = TRUE],
                      !.flipped = <<>>]
  IN  [m1 EXCEPT !.lockedRef = FALSE, !.locked = FALSE]

\* the callback of line 290: setDeck(d => matched on a and b); setFlipped([]);
\* setLocked(false)
matchCallback(m, t) ==
  LET m1 == [m EXCEPT !.deck = [@ EXCEPT ![t.a].matched = TRUE,
                                         ![t.b].matched = TRUE],
                      !.flipped = <<>>]
  IN  setLocked(m1, FALSE)

\* mutant: every card is turned face-down
mismatchCallback_AllDown(m, t) ==
  LET m1 == [m EXCEPT !.deck = [i \in DOMAIN @ |-> [@[i] EXCEPT !.flipped = FALSE]],
                      !.flipped = <<>>]
  IN  [m1 EXCEPT !.lockedRef = FALSE, !.locked = FALSE]

\* the callback of line 302
mismatchCallback(m, t) ==
  LET m1 == [m EXCEPT !.deck = [@ EXCEPT ![t.a].flipped = FALSE,
                                         ![t.b].flipped = FALSE],
                      !.flipped = <<>>]
  IN  setLocked(m1, FALSE)

\* mutant: the mismatch callback does not run
timerFired_MatchOnly(m, t) ==
  LET m1 == [m EXCEPT !.timers = @ \ {t}]
  IN  IF t.kind = "match" THEN matchCallback(m1, t) ELSE m1

\* a pending timeout fires: the browser drops it and runs its callback
timerFired(m, t) ==
  LET m1 == [m EXCEPT !.timers = @ \ {t}]
  IN  IF t.kind = "match" THEN matchCallback(m1, t) ELSE mismatchCallback(m1, t)


\* the finish effect runs after a render whose deps differ from the previous
\* render's
finishDeps(m) == <<m.deck, m.elapsed, bestMs(m.best, m.difficulty), m.difficulty>>

commit(prev, next) ==
  IF finishDeps(prev) # finishDeps(next) THEN finishEffect(next) ELSE next

\* setDifficulty(d): the render r1 after it still holds the previous deck; the
\* start effect (line 253) and then the finish effect (line 257, its dep
\* bestKey changed) run with the values of r1, and the state updates of both
\* are applied in order: setFinished(false) of startNew, then
\* setFinished(true) of the finish effect
difficultyChanged(m, d, newDeck) ==
  LET r1 == [m EXCEPT !.difficulty = d]
      s  == startNew(r1, newDeck)
      f  == finishEffect(r1)
      r2 == IF ArrLen(r1.deck) > 0 /\ allMatched(r1.deck)
            THEN [s EXCEPT !.finished = TRUE, !.best = f.best]
            ELSE s
  IN  commit(r1, r2)

\* the values of useState / useRef on mount, before the effects
MemOnMount(store) ==
  [difficulty |-> "medium", deck |-> <<>>, flipped |-> <<>>,
   hasStarted |-> FALSE, finished |-> FALSE, moves |-> 0,
   locked |-> FALSE, lockedRef |-> FALSE, timers |-> {},
   elapsed |-> 0, best |-> store]

---------------------------------------------------------------------------
(* SpecMemory: the actions of the MemoryGame component *)

\* the component after its mount effects, showing the deck nd
MountedWith(m) ==
            /\ difficulty = m.difficulty /\ deck = m.deck
            /\ flipped = m.flipped /\ hasStarted = m.hasStarted
            /\ finished = m.finished /\ moves = m.moves
            /\ locked = m.locked /\ lockedRef = m.lockedRef
            /\ timers = m.timers /\ elapsed = m.elapsed /\ best = m.best
  /\ cancelled = 0

InitMemory ==
  /\ mounted = TRUE
  /\ photos = InitialPhotos
  /\ \E nd \in startNewDecks(InitialPhotos, "medium") :
        MountedWith(startNew(MemOnMount([d \in DifficultyKey |-> NoItem]), nd))

\* the button of card idx is clicked
Click(idx) ==
  /\ mounted
  /\ idx \in DOMAIN deck
  /\ (Len(flipped) = 1 /\ ~clickRejected(Mem, idx)) => moves < MaxMoves
  /\ SetMem(commit(Mem, onCardClick(Mem, idx)))
  /\ cancelled' = 0
  /\ UNCHANGED <<mounted, photos>>
  /\ UNCHANGED notMemVars

\* a pending timeout fires
TimerFire(t) ==
  /\ t \in timers
  /\ IF mounted
     THEN SetMem(commit(Mem, timerFired(Mem, t)))
     ELSE /\ timers' = timers \ {t}
          /\ UNCHANGED <<difficulty, deck, flipped, hasStarted, finished, moves,
                         locked, lockedRef, elapsed, best>>
  /\ cancelled' = 0
  /\ UNCHANGED <<mounted, photos>>
  /\ UNCHANGED notMemVars

\* the reshuffle button: startNew()
Reshuffle ==
  /\ mounted
  /\ \E nd \in startNewDecks(photos, difficulty) :
        SetMem(commit(Mem, startNew(Mem, nd)))
  /\ cancelled' = Cardinality(timers \ timers')
  /\ UNCHANGED <<mounted, photos>>
  /\ UNCHANGED notMemVars

\* the difficulty select: setDifficulty(d)
SetDifficulty(d) ==
  /\ mounted
  /\ d # difficulty
  /\ \E nd \in startNewDecks(photos, d) :
        SetMem(difficultyChanged(Mem, d, nd))
  /\ cancelled' = Cardinality(timers \ timers')
  /\ UNCHANGED <<mounted, photos>>
  /\ UNCHANGED notMemVars

\* the photo list grows (addPhotos); the start effect of a mounted game
\* runs startNew(difficulty) against the new list
PhotosChanged ==
  /\ UserPhoto \notin Range(photos)
  /\ photos' = Append(photos, UserPhoto)
  /\ IF mounted
     THEN \E nd \in startNewDecks(photos', difficulty) :
             SetMem(commit(Mem, startNew(Mem, nd)))
     ELSE UNCHANGED <<difficulty, deck, flipped, hasStarted, finished, moves,
                      locked, lockedRef, timers, elapsed, best>>
  /\ cancelled' = Cardinality(timers \ timers')
  /\ UNCHANGED mounted
  /\ UNCHANGED notMemVars

\* an animation frame of the stopwatch, which runs while hasStarted && !finished
Tick ==
  /\ mounted /\ hasStarted /\ ~finished
  /\ elapsed < MaxElapsed
  /\ SetMem(commit(Mem, [Mem EXCEPT !.elapsed = @ + 1]))
  /\ cancelled' = 0
  /\ UNCHANGED <<mounted, photos>>
  /\ UNCHANGED notMemVars

\* the component is unmounted (tab switch): the cleanup of line 219 runs
\* clearTimers and the component's state is dropped
Unmount ==
  /\ mounted
  /\ mounted' = FALSE
  /\ SetMem([MemOnMount(best) EXCEPT !.timers = clearTimers(Supersede(timers))])
  /\ cancelled' = Cardinality(timers \ timers')
  /\ UNCHANGED photos
  /\ UNCHANGED notMemVars

\* the component is mounted again: fresh state, then the start effect
Mount ==
  /\ ~mounted
  /\ mounted' = TRUE
  /\ \E nd \in startNewDecks(photos, "medium") :
        SetMem(startNew([MemOnMount(best) EXCEPT !.timers = timers], nd))
  /\ cancelled' = Cardinality(timers \ timers')
  /\ UNCHANGED photos
  /\ UNCHANGED notMemVars

NextMemory ==
  \/ \E idx \in DOMAIN deck : Click(idx)
  \/ \E t \in timers : TimerFire(t)
  \/ Reshuffle
  \/ \E d \in DifficultyKey : SetDifficulty(d)
  \/ PhotosChanged
  \/ Tick
  \/ Unmount
  \/ Mount

InitGame ==
  /\ mounted = TRUE
  /\ photos = InitialPhotos
  /\ \E nd \in createMemoryDeck(InitialPhotos, GamePairs) :
        MountedWith(startNew(MemOnMount([d \in DifficultyKey |-> NoItem]), nd))

NextGame ==
  \/ \E idx \in DOMAIN deck : Click(idx)
  \/ \E t \in timers : TimerFire(t)


---------------------------------------------------------------------------
(* Tiles: makeTiles, shuffle, isSolved *)

\* null of selectedOrder, fromOrder and hoverOrder
Null == -1

\* the grid sizes of the select and the size the component starts with: the
\* source's 3, 4, 5 and 3 are played one size smaller and without the largest,
\* which keeps the orderings of a board within exhaustive search
GridOptions == {2, 3}

DefaultGrid == 2

\* bgPos `${col * step}% ${row * step}%` with step = 100 / (grid - 1): the
\* two numerators and the common denominator
makeTiles(image, g) ==
  [i \in 0..(g * g - 1) |->
     [id |-> i, order |-> i, bgPos |-> <<(i % g) * 100, (i \div g) * 100, g - 1>>]]

\* j = Math.floor(Math.random() * (i + 1)), drawn from all of its values
\* while i <= maxDraw
Draws(i, maxDraw) == IF i <= maxDraw THEN 0..i ELSE {i}

\* the loop of shuffle entered at index i: the arrays it can end with
RECURSIVE ShuffleLoop(_, _, _)
ShuffleLoop(a, i, maxDraw) ==
  IF i <= 0 THEN {a}
  ELSE UNION {ShuffleLoop(SwapAt(a, i, j), i - 1, maxDraw) : j \in Draws(i, maxDraw)}

shuffle(arr, maxDraw) == ShuffleLoop(arr, ArrLen(arr) - 1, maxDraw)

\* mutant: the length is not looked at
isSolved_EveryOnly(t) == \A i \in DOMAIN t : t[i].id = t[i].order

\* tiles.length > 0 && tiles.every((t) => t.id === t.order)
isSolved(t) == ArrLen(t) > 0 /\ \A i \in DOMAIN t : t[i].id = t[i].order

\* shuffledOrders.every((o, i) => o === i)
isIdentity(o) == \A i \in DOMAIN o : o[i] = i

\* Array.prototype.reverse
reverse(o) == [i \in DOMAIN o |-> o[ArrLen(o) - 1 - i]]

\* mutant: an identity shuffle is kept
reverseIfIdentity_Keep(o) == o

\* if (shuffledOrders.every((o, i) => o === i)) shuffledOrders.reverse()
reverseIfIdentity(o) == IF isIdentity(o) THEN reverse(o) ELSE o

\* t.map((x) => x.order)
ordersOf(t) == [i \in DOMAIN t |-> t[i].order]

\* startNew from the shuffled orders on: mixed
mixTiles(t, shuffledOrders) ==
  LET so == reverseIfIdentity(shuffledOrders)
  IN  [i \in DOMAIN t |-> [t[i] EXCEPT !.order = so[i]]]

\* the tiles startNew(newImg, newGrid) can set
startNewTiles(image, g) ==
  LET t == makeTiles(image, g)
  IN  {mixTiles(t, so) : so \in shuffle(ordersOf(t), MaxDraw)}

TileTable == [g \in GridOptions |-> startNewTiles("", g)]

---------------------------------------------------------------------------
(* hashPhotos, progKey *)

\* a string is the sequence of its UTF-16 code units; the photo references of
\* the model, spelled out
CharCodes ==
  [p \in {"maci1", "maci2", "user1", "k2jacgj"} |->
     IF p = "maci1" THEN <<109, 97, 99, 105, 49>>
     ELSE IF p = "maci2" THEN <<109, 97, 99, 105, 50>>
     ELSE IF p = "user1" THEN <<117, 115, 101, 114, 49>>
     ELSE <<107, 50, 106, 97, 99, 103, 106>>]

\* photos.join("|")
RECURSIVE join(_)
join(ph) ==
  IF Len(ph) = 0 THEN <<>>
  ELSE IF Len(ph) = 1 THEN ph[1]
  ELSE ph[1] \o <<124>> \o join(Tail(ph))

\* a ^ b on the low n bits
RECURSIVE BitXor(_, _, _)
BitXor(a, b, n) ==
  IF n = 0 THEN 0
  ELSE (((a % 2) + (b % 2)) % 2) + 2 * BitXor(a \div 2, b \div 2, n - 1)

\* h = (h * 33) ^ ch.charCodeAt(0): ^ keeps the low 32 bits of the product;
\* h is held as <<high 16 bits, low 16 bits>>
hashStep(h, code) ==
  LET lo33 == h[2] * 33
      hi33 == (h[1] * 33) + (lo33 \div 65536)
  IN  <<hi33 % 65536, BitXor(lo33 % 65536, code, 16)>>

\* the loop of hashPhotos over the code units from position k on
RECURSIVE hashLoop(_, _, _)
hashLoop(h, str, k) ==
  IF k > Len(str) THEN h ELSE hashLoop(hashStep(h, str[k]), str, k + 1)

Digits36 ==
  <<"0", "1", "2", "3", "4", "5", "6", "7", "8", "9", "a", "b", "c", "d", "e",
    "f", "g", "h", "i", "j", "k", "l", "m", "n", "o", "p", "q", "r", "s", "t",
    "u", "v", "w", "x", "y", "z">>

\* (h >>> 0).toString(36), digit by digit
RECURSIVE toString36(_)
toString36(h) ==
  LET t == ((h[1] % 36) * 65536) + h[2]
      q == <<h[1] \div 36, t \div 36>>
      d == Digits36[(t % 36) + 1]
  IN  IF q = <<0, 0>> THEN <<d>> ELSE Append(toString36(q), d)

\* hashPhotos(photos), photos a list of strings
hashPhotos(ph) == toString36(hashLoop(<<0, 5381>>, join(ph), 1))

\* `doggo_puzzle_prog_${photosHash}`
progKey(ph) == <<"doggo_puzzle_prog_">> \o hashPhotos(ph)

\* progKey of a list of the model's photo references
progKeyOf(names) == progKey([k \in 1..Len(names) |-> CharCodes[names[k]]])

---------------------------------------------------------------------------
(* JavaScript values, JSON *)

\* a value carries its type tag; a string is the sequence of its characters,
\* an array the sequence of its elements, an object the sequence of its
\* properties in insertion order
Undefined == [t |-> "undefined"]
JNull == [t |-> "null"]
NaN == [t |-> "NaN"]
Bool(b) == [t |-> "boolean", b |-> b]
Num(n) == [t |-> "number", n |-> n]
Str(chars) == [t |-> "string", s |-> chars]
Arr(elems) == [t |-> "array", a |-> elems]
Obj(props) == [t |-> "object", o |-> props]
Prop(key, val) == [k |-> key, val |-> val]

\* a JSON text is the sequence of its tokens: punctuation and literals
P(c) == [t |-> "punct", p |-> c]
isP(tok, c) == tok.t = "punct" /\ tok.p = c

\* the tokens of the items of list, separated by commas
RECURSIVE commaJoin(_)
commaJoin(list) ==
  IF Len(list) = 0 THEN <<>>
  ELSE IF Len(list) = 1 THEN list[1]
  ELSE list[1] \o <<P(",")>> \o commaJoin(Tail(list))

\* the properties JSON.stringify writes: those whose value is not undefined
RECURSIVE definedProps(_)
definedProps(props) ==
  IF Len(props) = 0 THEN <<>>
  ELSE IF Head(props).val.t = "undefined" THEN definedProps(Tail(props))
  ELSE <<Head(props)>> \o definedProps(Tail(props))

\* JSON.stringify(value): NaN, and undefined inside an array, are written as
\* null
RECURSIVE JSONstringify(_)
JSONstringify(value) ==
  IF value.t \in {"NaN", "undefined"} THEN <<JNull>>
  ELSE IF value.t = "array"
  THEN <<P("[")>>
         \o commaJoin([k \in 1..Len(value.a) |-> JSONstringify(value.a[k])])
         \o <<P("]")>>
  ELSE IF value.t = "object"
  THEN LET props == definedProps(value.o)
       IN  <<P("{")>>
             \o commaJoin([k \in 1..Len(props) |->
                             <<Str(props[k].k), P(":")>>
                               \o JSONstringify(props[k].val)])
             \o <<P("}")>>
  ELSE <<value>>

\* the result of a parsing step: the value read and the position after it
ParseFail == [ok |-> FALSE, val |-> Undefined, pos |-> 0]
ParseOk(val, pos) == [ok |-> TRUE, val |-> val, pos |-> pos]

\* obj[key] = val: a repeated key keeps its place and takes the later value
setProp(props, key, val) ==
  IF \E k \in 1..Len(props) : props[k].k = key
  THEN [k \in 1..Len(props) |->
          IF props[k].k = key THEN Prop(key, val) ELSE props[k]]
  ELSE Append(props, Prop(key, val))

RECURSIVE parseValue(_, _)
RECURSIVE parseElements(_, _, _)
RECURSIVE parseMembers(_, _, _)

\* the value that starts at token p
parseValue(text, p) ==
  IF p > Len(text) THEN ParseFail
  ELSE IF text[p].t # "punct" THEN ParseOk(text[p], p + 1)
  ELSE IF isP(text[p], "[")
  THEN IF p + 1 <= Len(text) /\ isP(text[p + 1], "]")
       THEN ParseOk(Arr(<<>>), p + 2)
       ELSE parseElements(text, p + 1, <<>>)
  ELSE IF isP(text[p], "{")
  THEN IF p + 1 <= Len(text) /\ isP(text[p + 1], "}")
       THEN ParseOk(Obj(<<>>), p + 2)
       ELSE parseMembers(text, p + 1, <<>>)
  ELSE ParseFail

\* the elements of an array from token p on, up to the closing bracket
parseElements(text, p, elems) ==
  LET r == parseValue(text, p)
  IN  IF ~r.ok \/ r.pos > Len(text) THEN ParseFail
      ELSE IF isP(text[r.pos], ",")
      THEN parseElements(text, r.pos + 1, Append(elems, r.val))
      ELSE IF isP(text[r.pos], "]")
      THEN ParseOk(Arr(Append(elems, r.val)), r.pos + 1)
      ELSE ParseFail

\* the members of an object from token p on, up to the closing brace
parseMembers(text, p, props) ==
  IF p + 1 > Len(text) \/ text[p].t # "string" \/ ~isP(text[p + 1], ":")
  THEN ParseFail
  ELSE LET r == parseValue(text, p + 2)
       IN  IF ~r.ok \/ r.pos > Len(text) THEN ParseFail
           ELSE IF isP(text[r.pos], ",")
           THEN parseMembers(text, r.pos + 1, setProp(props, text[p].s, r.val))
           ELSE IF isP(text[r.pos], "}")
           THEN ParseOk(Obj(setProp(props, text[p].s, r.val)), r.pos + 1)
           ELSE ParseFail

\* JSON.parse(text): ok is false where it throws a SyntaxError
JSONparse(text) ==
  LET r == parseValue(text, 1)
  IN  IF r.ok /\ r.pos = Len(text) + 1 THEN r ELSE ParseFail

\* value[key] for a property name; undefined where there is none (null and
\* undefined, which throw, are handled by the callers)
getProp(value, key) ==
  IF value.t = "object" /\ \E k \in 1..Len(value.o) : value.o[k].k = key
  THEN value.o[CHOOSE k \in 1..Len(value.o) : value.o[k].k = key].val
  ELSE Undefined

\* String(i) for an array index below ten
indexKey(i) == <<Digits36[i + 1]>>

\* value?.[i] for an integer i >= 0
elementAt(value, i) ==
  IF value.t = "array"
  THEN IF i < Len(value.a) THEN value.a[i + 1] ELSE Undefined
  ELSE IF value.t = "string"
  THEN IF i < Len(value.s) THEN Str(<<value.s[i + 1]>>) ELSE Undefined
  ELSE IF value.t = "object" /\ i < 10 THEN getProp(value, indexKey(i))
  ELSE Undefined

\* x ?? y
nullish(x, y) == IF x.t \in {"null", "undefined"} THEN y ELSE x

DigitValue(c) == CHOOSE d \in 0..9 : Digits36[d + 1] = c

\* the number a string of decimal digits denotes
RECURSIVE decimal(_)
decimal(chars) ==
  IF Len(chars) = 0 THEN 0
  ELSE 10 * decimal(SubSeq(chars, 1, Len(chars) - 1)) + DigitValue(chars[Len(chars)])

\* ToNumber of a string: the empty string is 0, decimal digits are their
\* number, text that is no numeric literal is NaN
StringToNumber(chars) ==
  IF \A k \in 1..Len(chars) : \E d \in 0..9 : Digits36[d + 1] = chars[k]
  THEN Num(decimal(chars))
  ELSE NaN

\* ToNumber, the conversion Math.max and Math.min apply to their arguments
RECURSIVE ToNumber(_)
ToNumber(value) ==
  IF value.t \in {"number", "NaN"} THEN value
  ELSE IF value.t = "boolean" THEN Num(IF value.b THEN 1 ELSE 0)
  ELSE IF value.t = "null" THEN Num(0)
  ELSE IF value.t = "string" THEN StringToNumber(value.s)
  ELSE IF value.t = "array" /\ Len(value.a) = 0 THEN Num(0)
  ELSE IF value.t = "array" /\ Len(value.a) = 1
  THEN IF value.a[1].t \in {"null", "undefined"} THEN Num(0)
       ELSE IF value.a[1].t \in {"number", "NaN", "string", "array"}
       THEN ToNumber(value.a[1])
       ELSE NaN
  ELSE NaN

Max2(a, b) == IF a >= b THEN a ELSE b
Min2(a, b) == IF a <= b THEN a ELSE b

MathMax(a, b) ==
  LET x == ToNumber(a)
      y == ToNumber(b)
  IN  IF x.t = "NaN" \/ y.t = "NaN" THEN NaN ELSE Num(Max2(x.n, y.n))

MathMin(a, b) ==
  LET x == ToNumber(a)
      y == ToNumber(b)
  IN  IF x.t = "NaN" \/ y.t = "NaN" THEN NaN ELSE Num(Min2(x.n, y.n))

---------------------------------------------------------------------------
(* JigsawPuzzle *)

PuzzlePhotos == InitialPhotos

\* photos[k]; "" stands for undefined
photoAt(ph, k) == IF k \in 0..(Len(ph) - 1) THEN ph[k + 1] ELSE ""

\* photos.findIndex((p) => p === value)
findIndex(ph, value) ==
  IF \E k \in 1..Len(ph) : ph[k] = value
  THEN (CHOOSE k \in 1..Len(ph) :
           ph[k] = value /\ \A l \in 1..(k - 1) : ph[l] # value) - 1
  ELSE -1

\* x || y on strings
orElse(x, y) == IF x # "" THEN x ELSE y

KeyIndex == <<"i", "n", "d", "e", "x">>
KeySolved == <<"s", "o", "l", "v", "e", "d">>

\* { index, solved }
campaignObject(index, solved) == Obj(<<Prop(KeyIndex, index), Prop(KeySolved, solved)>>)

\* { index: 0, solved: photos.map(() => false) }
defaultCampaign(len) == [index |-> Num(0), solved |-> [k \in 1..len |-> Bool(FALSE)]]

\* mutant: the index is bounded from below only
clampIndex_LowerOnly(value, len) == MathMax(value, Num(0))

\* Math.min(Math.max(parsed.index ?? 0, 0), len - 1)
clampIndex(value, len) == MathMin(MathMax(value, Num(0)), Num(len - 1))

\* loadCampaign() for a photo list of len photos, item the entry of
\* localStorage under progKey: NoItem where getItem returns null, else <<text>>.
\* The result has index and the elements of solved as JavaScript values.
loadCampaign(len, item) ==
  IF item = NoItem THEN defaultCampaign(len)
  ELSE IF Len(item[1]) = 0 THEN defaultCampaign(len)
  ELSE LET r == JSONparse(item[1])
           parsed == r.val
       IN  IF ~r.ok THEN defaultCampaign(len)
           ELSE IF parsed.t = "null" THEN defaultCampaign(len)
           ELSE [index |-> clampIndex(nullish(getProp(parsed, KeyIndex), Num(0)), len),
                 solved |-> [k \in 1..len |->
                               nullish(elementAt(getProp(parsed, KeySolved), k - 1),
                                       Bool(FALSE))]]

\* the campaign state as a JavaScript object; solved has the flags 0..n-1
campaignValue(c) ==
  campaignObject(Num(c.index),
                 Arr([k \in 1..Cardinality(DOMAIN c.solved) |-> Bool(c.solved[k - 1])]))

\* the campaign state loadCampaign returned, for a list of len photos
campaignState(loaded, len) ==
  [index |-> loaded.index.n, solved |-> [k \in 0..(len - 1) |-> loaded.solved[k + 1].b]]

\* the campaign keys of the photo lists of the component
AddedPhotos == {UserPhoto, CollidingPhoto}
PuzzlePhotoLists == {PuzzlePhotos} \cup {Append(PuzzlePhotos, a) : a \in AddedPhotos}
ProgKeyTable == [ph \in PuzzlePhotoLists |-> progKeyOf(ph)]

\* localStorage.getItem(key)
getItem(store, key) == IF key \in DOMAIN store THEN store[key] ELSE NoItem

\* localStorage.setItem(key, text)
setItem(store, key, text) ==
  [k \in DOMAIN store \cup {key} |-> IF k = key THEN <<text>> ELSE store[k]]

\* mutant: the write fails and the error is swallowed
saveCampaign_Swallowed(store, ph, c) == store

\* localStorage.setItem(progKey, JSON.stringify(campaign))
saveCampaign(store, ph, c) ==
  setItem(store, ProgKeyTable[ph], JSONstringify(campaignValue(c)))

gridKey == <<"doggo_puzzle_last_grid">>

\* String(n) of a non-negative integer: its decimal digits
RECURSIVE NumberToString(_)
NumberToString(n) ==
  IF n < 10 THEN <<Digits36[n + 1]>>
  ELSE NumberToString(n \div 10) \o <<Digits36[(n % 10) + 1]>>

\* Number(localStorage.getItem(key)): Number(null) is 0
Number(item) == IF item = NoItem THEN Num(0) ELSE StringToNumber(item[1])

\* the persist effect of the grid size (deps grid)
gridPersist(store, g) == setItem(store, gridKey, NumberToString(g))

\* the restore effect of the grid size (mount only): the stored size, when
\* it is one of the sizes on offer, else the size in g
gridRestore(store, g) ==
  LET n == Number(getItem(store, gridKey))
  IN  IF n.t = "number" /\ n.n \in GridOptions THEN n.n ELSE g

\* the grid size once the mount effects have run: useState gives the default
\* size, the persist effect, declared first, stores it, then the restore
\* effect reads the store
mountGrid(store) == gridRestore(gridPersist(store, DefaultGrid), DefaultGrid)

\* the persist effect after the renders that end in grid size g
gridEffect(store, prevGrid, g) ==
  IF g # prevGrid THEN gridPersist(store, g) ELSE store

\* the save effect (deps progKey, campaign) after the renders that end in p;
\* the handlers that set the campaign write the same value themselves
saveEffect(store, prevCampaign, p) ==
  IF p.campaign # prevCampaign THEN saveCampaign(store, p.photos, p.campaign)
  ELSE store

\* the state of the component as the current render sees it
Puz ==
  [photos |-> puzPhotos, grid |-> grid, campaign |-> campaign, img |-> img,
   tiles |-> tiles, selectedOrder |-> selectedOrder, dragging |-> dragging,
   prevSolvedRef |-> prevSolvedRef, showCongrats |-> showCongrats]

SetPuz(p) ==
  /\ puzPhotos' = p.photos
  /\ grid' = p.grid
  /\ campaign' = p.campaign
  /\ img' = p.img
  /\ tiles' = p.tiles
  /\ selectedOrder' = p.selectedOrder
  /\ dragging' = p.dragging
  /\ prevSolvedRef' = p.prevSolvedRef
  /\ showCongrats' = p.showCongrats
  /\ progStore' = gridEffect(saveEffect(progStore, campaign, p), grid, p.grid)

\* photos[campaign.index] || photos[0] || DEFAULT_PHOTOS[0] || ""
currentImg(p) ==
  orElse(photoAt(p.photos, p.campaign.index),
         orElse(photoAt(p.photos, 0), orElse(photoAt(DEFAULT_PHOTOS, 0), "")))

NotDragging ==
  [active |-> FALSE, fromOrder |-> Null, hoverOrder |-> Null, didMove |-> FALSE]

\* startNew(), with newTiles the tiles of the shuffle
puzzleStartNew(p, newTiles) ==
  [p EXCEPT !.tiles = newTiles, !.selectedOrder = Null, !.prevSolvedRef = FALSE]

\* mutant: the tile at toOrder is not moved
onSwap_Overwrite(t, fromOrder, toOrder) ==
  IF fromOrder = toOrder THEN t
  ELSE [i \in DOMAIN t |->
          IF t[i].order = fromOrder THEN [t[i] EXCEPT !.order = toOrder]
          ELSE t[i]]

\* mutant: only positions next to each other in reading order are swapped
onSwap_NeighboursOnly(t, fromOrder, toOrder) ==
  IF fromOrder = toOrder \/ (fromOrder - toOrder) \notin {-1, 1} THEN t
  ELSE [i \in DOMAIN t |->
          IF t[i].order = fromOrder THEN [t[i] EXCEPT !.order = toOrder]
          ELSE IF t[i].order = toOrder THEN [t[i] EXCEPT !.order = fromOrder]
          ELSE t[i]]

\* onSwap(fromOrder, toOrder): the update of setTiles
onSwap(t, fromOrder, toOrder) ==
  IF fromOrder = toOrder THEN t
  ELSE [i \in DOMAIN t |->
          IF t[i].order = fromOrder THEN [t[i] EXCEPT !.order = toOrder]
          ELSE IF t[i].order = toOrder THEN [t[i] EXCEPT !.order = fromOrder]
          ELSE t[i]]

\* computeOrderFromPoint(clientX, clientY) on a grid element at left = top = 0
\* with cells of CellSize; lengths are taken in hundredths, so that
\* r.width - 0.01 is 100 * width - 1
computeOrderFromPoint(g, clientX, clientY) ==
  LET width  == g * CellSize
      height == g * CellSize
      cw  == 100 * CellSize
      ch  == 100 * CellSize
      x   == Min2(Max2(100 * clientX, 0), 100 * width - 1)
      y   == Min2(Max2(100 * clientY, 0), 100 * height - 1)
      col == x \div cw
      row == y \div ch
  IN  row * g + col

\* pointer positions <<clientX, clientY>>: the middle of each cell, a point
\* left of and above the grid, the bottom right corner of the grid
PointerPoints(g) ==
  {<<c * CellSize + CellSize \div 2, r * CellSize + CellSize \div 2>> :
     c \in 0..(g - 1), r \in 0..(g - 1)}
  \cup {<<-1, -1>>, <<g * CellSize, g * CellSize>>}

handlePointerDown(p, order) ==
  [p EXCEPT !.dragging = [active |-> TRUE, fromOrder |-> order,
                          hoverOrder |-> order, didMove |-> FALSE]]

handlePointerMove(p, ord) ==
  IF ~p.dragging.active THEN p
  ELSE [p EXCEPT !.dragging = [@ EXCEPT !.didMove = TRUE, !.hoverOrder = ord]]

handlePointerUp(p) ==
  IF ~p.dragging.active THEN p
  ELSE
    LET fromOrder   == p.dragging.fromOrder
        targetOrder == IF p.dragging.hoverOrder # Null THEN p.dragging.hoverOrder
                       ELSE fromOrder
        p1 == IF p.dragging.didMove /\ targetOrder # Null /\ fromOrder # Null
              THEN [p EXCEPT !.tiles = onSwap(@, fromOrder, targetOrder),
                             !.selectedOrder = Null]
              ELSE IF p.selectedOrder = Null
                   THEN [p EXCEPT !.selectedOrder = fromOrder]
                   ELSE IF p.selectedOrder = fromOrder
                        THEN [p EXCEPT !.selectedOrder = Null]
                        ELSE [p EXCEPT !.tiles = onSwap(@, p.selectedOrder, fromOrder),
                                       !.selectedOrder = Null]
    IN  [p1 EXCEPT !.dragging = NotDragging]

\* onClick of the cell at order
cellClick(p, order) ==
  IF p.dragging.active THEN p
  ELSE IF p.selectedOrder = Null THEN [p EXCEPT !.selectedOrder = order]
  ELSE IF p.selectedOrder = order THEN [p EXCEPT !.selectedOrder = Null]
  ELSE [p EXCEPT !.tiles = onSwap(@, p.selectedOrder, order),
                 !.selectedOrder = Null]

handleNextLevel(p) ==
  LET p1 == [p EXCEPT !.showCongrats = FALSE]
  IN  IF p.campaign.index < Len(p.photos) - 1
      THEN [p1 EXCEPT !.campaign = [index |-> p.campaign.index + 1,
                                    solved |-> p.campaign.solved],
                      !.img = photoAt(p.photos, p.campaign.index + 1)]
      ELSE p1

handleCloseCongrats(p) == [p EXCEPT !.showCongrats = FALSE]

\* mutant: the solved flags are not carried over
handleSelectImg_ForgetsSolved(p, value) ==
  [p EXCEPT !.campaign = [index |-> Max2(0, findIndex(p.photos, value)),
                          solved |-> [k \in DOMAIN p.campaign.solved |-> FALSE]],
            !.img = value]

handleSelectImg(p, value) ==
  [p EXCEPT !.campaign = [index |-> Max2(0, findIndex(p.photos, value)),
                          solved |-> p.campaign.solved],
            !.img = value]

resetCampaign(p) ==
  [p EXCEPT !.campaign = [index |-> 0,
                          solved |-> [k \in 0..(Len(p.photos) - 1) |-> FALSE]],
            !.prevSolvedRef = FALSE,
            !.img = orElse(photoAt(p.photos, 0), orElse(photoAt(DEFAULT_PHOTOS, 0), ""))]

\* mutant: completing an image moves the campaign on to the next one
solveEffect_AutoAdvance(c) ==
  IF isSolved(c.tiles) /\ ~c.prevSolvedRef
  THEN [c EXCEPT !.campaign =
                    [index |-> IF c.campaign.index < Len(c.photos) - 1
                               THEN c.campaign.index + 1 ELSE c.campaign.index,
                     solved |-> [k \in DOMAIN c.campaign.solved \cup {c.campaign.index} |->
                                   IF k = c.campaign.index THEN TRUE
                                   ELSE c.campaign.solved[k]]],
                 !.showCongrats = TRUE]
  ELSE [c EXCEPT !.prevSolvedRef = isSolved(c.tiles)]

\* mutant: the first image is flagged, whichever image was completed
solveEffect_FlagsFirst(c) ==
  IF isSolved(c.tiles) /\ ~c.prevSolvedRef
  THEN [c EXCEPT !.campaign.solved = [@ EXCEPT ![0] = TRUE],
                 !.showCongrats = TRUE]
  ELSE [c EXCEPT !.prevSolvedRef = isSolved(c.tiles)]

\* the solve effect (deps solved), run with the values of the render c
solveEffect(c) ==
  IF isSolved(c.tiles) /\ ~c.prevSolvedRef
  THEN [c EXCEPT !.campaign.solved =
                    [k \in DOMAIN @ \cup {c.campaign.index} |->
                       IF k = c.campaign.index THEN TRUE ELSE @[k]],
                 !.showCongrats = TRUE]
  ELSE [c EXCEPT !.prevSolvedRef = isSolved(c.tiles)]

\* the solve effect runs after a render whose solved differs from the
\* previous render's
puzCommit(prev, next) ==
  IF isSolved(prev.tiles) # isSolved(next.tiles) THEN solveEffect(next) ELSE next

\* a tap on the tile in the cell at order: pointerdown and pointerup on the
\* tile, then the click they produce, which bubbles to the cell; each event
\* is handled and rendered before the next one is dispatched
tap(p, order) ==
  LET down == puzCommit(p, handlePointerDown(p, order))
      up   == puzCommit(down, handlePointerUp(down))
  IN  puzCommit(up, cellClick(up, order))

\* the renders after a handler, as the set of states they can end in: the
\* effect of line 504 sets img to currentImg when currentImg changed, the
\* effect of line 541 runs startNew when img or grid changed, then the solve
\* effect runs
puzSettle(prev, next) ==
  LET imgNext == IF currentImg(next) # currentImg(prev) THEN currentImg(next)
                 ELSE next.img
      r1 == puzCommit(prev, next)
  IN  IF next.img # prev.img \/ next.grid # prev.grid \/ imgNext # next.img
      THEN {puzCommit(r1, puzzleStartNew([r1 EXCEPT !.img = imgNext], newTiles)) :
              newTiles \in TileTable[next.grid]}
      ELSE {r1}

\* the component after mount and its mount effects: campaign is
\* loadCampaign(), img the current image, the board is dealt by startNew
mountPuzzle(store, ph, newTiles) ==
  LET loaded == campaignState(loadCampaign(Len(ph), getItem(store, ProgKeyTable[ph])),
                              Len(ph))
      first == [photos |-> ph, grid |-> mountGrid(store), campaign |-> loaded, img |-> "",
                tiles |-> <<>>, selectedOrder |-> Null, dragging |-> NotDragging,
                prevSolvedRef |-> FALSE, showCongrats |-> FALSE]
  IN  puzzleStartNew([first EXCEPT !.img = currentImg(first)], newTiles)

\* the component after its first mount, with no stored progress
InitPuzzle ==
  \E p \in {mountPuzzle(<<>>, PuzzlePhotos, newTiles) :
              newTiles \in TileTable[mountGrid(<<>>)]} :
    /\ puzPhotos = p.photos
    /\ grid = p.grid
    /\ campaign = p.campaign
    /\ img = p.img
    /\ tiles = p.tiles
    /\ selectedOrder = p.selectedOrder
    /\ dragging = p.dragging
    /\ prevSolvedRef = p.prevSolvedRef
    /\ showCongrats = p.showCongrats
    /\ progStore = gridPersist(saveCampaign(<<>>, p.photos, p.campaign), p.grid)

\* the cells the player touches on a board of g x g cells
TouchCells(g) == {o \in 0..(g * g - 1) : o < MaxTouch \/ o = g * g - 1}

\* pointer down on the tile shown in cell order
PointerDown(order) ==
  /\ order \in TouchCells(grid)
  /\ \E i \in DOMAIN tiles : tiles[i].order = order
  /\ SetPuz(puzCommit(Puz, handlePointerDown(Puz, order)))
  /\ UNCHANGED notPuzVars

\* pointer move over the play field
PointerMove(clientX, clientY) ==
  /\ dragging.active
  /\ computeOrderFromPoint(grid, clientX, clientY) \in TouchCells(grid)
  /\ SetPuz(puzCommit(Puz, handlePointerMove(Puz,
                 computeOrderFromPoint(grid, clientX, clientY))))
  /\ UNCHANGED notPuzVars

PointerUp ==
  /\ dragging.active
  /\ SetPuz(puzCommit(Puz, handlePointerUp(Puz)))
  /\ UNCHANGED notPuzVars

CellClick(order) ==
  /\ order \in TouchCells(grid)
  /\ SetPuz(puzCommit(Puz, cellClick(Puz, order)))
  /\ UNCHANGED notPuzVars

\* the grid select: setGrid(Number(e.target.value))
SetGrid(g) ==
  /\ g \in GridOptions \ {grid}
  /\ \E p \in puzSettle(Puz, [Puz EXCEPT !.grid = g]) : SetPuz(p)
  /\ UNCHANGED notPuzVars

\* the reshuffle button: startNew()
PuzzleReshuffle ==
  /\ \E nt \in TileTable[grid] :
        SetPuz(puzCommit(Puz, puzzleStartNew(Puz, nt)))
  /\ UNCHANGED notPuzVars

\* a level button or the image select
SelectImg(value) ==
  /\ value \in Range(puzPhotos)
  /\ \E p \in puzSettle(Puz, handleSelectImg(Puz, value)) : SetPuz(p)
  /\ UNCHANGED notPuzVars

\* "Tovabb" in the level-complete dialog
NextLevel ==
  /\ showCongrats
  /\ campaign.index < Len(puzPhotos) - 1
  /\ \E p \in puzSettle(Puz, handleNextLevel(Puz)) : SetPuz(p)
  /\ UNCHANGED notPuzVars

\* "Maradok" / "Bezar" / the backdrop of the dialog
CloseCongrats ==
  /\ showCongrats
  /\ SetPuz(puzCommit(Puz, handleCloseCongrats(Puz)))
  /\ UNCHANGED notPuzVars

\* the reset button of the campaign bar, "Ujrakezdem" of the dialog
ResetCampaign ==
  /\ \E p \in puzSettle(Puz, resetCampaign(Puz)) : SetPuz(p)
  /\ UNCHANGED notPuzVars

\* the page is reloaded, or the tab is left and entered again: the component
\* is mounted anew with the same photo list and the same localStorage
PuzzleRemount ==
  /\ \E p \in {mountPuzzle(progStore, puzPhotos, newTiles) :
                    newTiles \in TileTable[mountGrid(progStore)]} :
        /\ puzPhotos' = p.photos
        /\ grid' = p.grid
        /\ campaign' = p.campaign
        /\ img' = p.img
        /\ tiles' = p.tiles
        /\ selectedOrder' = p.selectedOrder
        /\ dragging' = p.dragging
        /\ prevSolvedRef' = p.prevSolvedRef
        /\ showCongrats' = p.showCongrats
        /\ progStore' = gridPersist(saveCampaign(progStore, p.photos, p.campaign),
                                    p.grid)
  /\ UNCHANGED notPuzVars

\* the renders after the prop photos became ph: when photosHash changed the
\* load effect sets the campaign to loadCampaign() of the new list
photosChanged(p, store, ph) ==
  IF ProgKeyTable[ph] # ProgKeyTable[p.photos]
  THEN [p EXCEPT !.photos = ph,
                 !.campaign =
                    campaignState(loadCampaign(Len(ph), getItem(store, ProgKeyTable[ph])),
                                  Len(ph))]
  ELSE [p EXCEPT !.photos = ph]

\* the store after those renders: when progKey changed the save effect runs
\* after the load effect with the campaign of the old list, and again in the
\* next render with the campaign that was loaded
photosSaved(store, p, q) ==
  IF ProgKeyTable[q.photos] # ProgKeyTable[p.photos]
  THEN saveCampaign(saveCampaign(store, q.photos, p.campaign), q.photos, q.campaign)
  ELSE saveEffect(store, p.campaign, q)

\* DoggoGames.addPhotos adds a photo: the component is rendered with the
\* longer list
PhotosChange(added) ==
  /\ puzPhotos = PuzzlePhotos
  /\ \E q \in puzSettle(Puz, photosChanged(Puz, progStore, Append(puzPhotos, added))) :
        /\ puzPhotos' = q.photos
        /\ grid' = q.grid
        /\ campaign' = q.campaign
        /\ img' = q.img
        /\ tiles' = q.tiles
        /\ selectedOrder' = q.selectedOrder
        /\ dragging' = q.dragging
        /\ prevSolvedRef' = q.prevSolvedRef
        /\ showCongrats' = q.showCongrats
        /\ progStore' = photosSaved(progStore, Puz, q)
  /\ UNCHANGED notPuzVars

NextPuzzle ==
  \/ \E order \in TouchCells(grid) : PointerDown(order)
  \/ \E pt \in PointerPoints(grid) : PointerMove(pt[1], pt[2])
  \/ PointerUp
  \/ \E order \in TouchCells(grid) : CellClick(order)
  \/ \E g \in GridOptions : SetGrid(g)
  \/ PuzzleReshuffle
  \/ \E value \in Range(puzPhotos) : SelectImg(value)
  \/ NextLevel
  \/ CloseCongrats
  \/ ResetCampaign
  \/ PuzzleRemount

---------------------------------------------------------------------------
(* startNew, its shuffle run one loop iteration per step *)

GridRange == 2..MaxGrid

InitRun ==
  /\ runGrid \in GridRange
  /\ runArr = ordersOf(makeTiles("", runGrid))
  /\ runI = runGrid * runGrid - 1
  /\ runTiles = <<>>
  /\ runDone = FALSE

\* one iteration of the loop of shuffle: j = floor(random() * (i + 1))
ShuffleStep ==
  /\ ~runDone /\ runI > 0
  /\ \E j \in 0..runI : runArr' = SwapAt(runArr, runI, j)
  /\ runI' = runI - 1
  /\ UNCHANGED <<runGrid, runTiles, runDone>>
  /\ UNCHANGED notRunVars

\* the loop has ended: startNew sets the tiles
SetShuffledTiles ==
  /\ ~runDone /\ runI <= 0
  /\ runTiles' = mixTiles(makeTiles("", runGrid), runArr)
  /\ runDone' = TRUE
  /\ UNCHANGED <<runGrid, runArr, runI>>
  /\ UNCHANGED notRunVars

NextRun == ShuffleStep \/ SetShuffledTiles

---------------------------------------------------------------------------
(* onSwap called on drawn inputs *)

\* tile sets whose orders are a permutation of the positions
SwapBoards(g) ==
  LET t == makeTiles("", g)
  IN  {[i \in DOMAIN t |-> [t[i] EXCEPT !.order = so[i]]] :
         so \in shuffle(ordersOf(t), SwapDraw)}

InitSwapCall ==
  /\ \E g \in GridRange :
        /\ swapTiles \in SwapBoards(g)
        /\ swapFrom \in 0..(g * g - 1)
        /\ swapTo \in 0..(g * g - 1)
  /\ swapOut = swapTiles
  /\ swapCalls = 0

\* onSwap(swapFrom, swapTo), and the same call once more
CallOnSwap ==
  /\ swapCalls < 2
  /\ swapOut' = onSwap(swapOut, swapFrom, swapTo)
  /\ swapCalls' = swapCalls + 1
  /\ UNCHANGED <<swapTiles, swapFrom, swapTo>>
  /\ UNCHANGED notSwapVars

NextSwap == CallOnSwap

---------------------------------------------------------------------------
(* isSolved called on drawn inputs *)

\* the tile sets isSolved is called on: the empty set of the first render, the
\* boards of SwapBoards (the solved board among them), and these boards after
\* an onSwap whose fromOrder lies outside the board
SolvedInputs ==
  {<<>>}
  \cup UNION {SwapBoards(g) : g \in GridRange}
  \cup UNION {{onSwap(b, g * g, a) : b \in SwapBoards(g), a \in 0..(g * g - 1)} :
               g \in GridRange}

InitSolvedCall ==
  /\ solvedTiles \in SolvedInputs
  /\ solvedOut = FALSE
  /\ solvedDone = FALSE

CallIsSolved ==
  /\ ~solvedDone
  /\ solvedOut' = isSolved(solvedTiles)
  /\ solvedDone' = TRUE
  /\ UNCHANGED solvedTiles
  /\ UNCHANGED notSolvedVars

NextSolved == CallIsSolved

---------------------------------------------------------------------------
(* progKey called on two photo lists *)

\* the characters photo references are drawn from: "1", "a", "g", "w"
HashAlphabet == {49, 97, 103, 119}

\* the strings of 1..n characters
HashStrings(n) == UNION {[1..k -> HashAlphabet] : k \in 1..n}

\* the photo lists of 1..MaxHashPhotos references of 1..MaxRefLen characters
HashLists == UNION {[1..k -> HashStrings(MaxRefLen)] : k \in 1..MaxHashPhotos}

InitHashCall ==
  /\ hashLists \in HashLists \X HashLists
  /\ hashKeys = <<>>
  /\ hashDone = FALSE

CallProgKey ==
  /\ ~hashDone
  /\ hashKeys' = <<progKey(hashLists[1]), progKey(hashLists[2])>>
  /\ hashDone' = TRUE
  /\ UNCHANGED hashLists
  /\ UNCHANGED notHashVars

NextHash == CallProgKey

---------------------------------------------------------------------------
(* loadCampaign called on a photo list and a stored item *)

LoadPhotos == <<"maci1", "maci2", "user1">>

\* the photo lists: 1..MaxLoadPhotos photos
LoadPhotoLists == {SubSeq(LoadPhotos, 1, k) : k \in 1..Min2(MaxLoadPhotos, Len(LoadPhotos))}

\* arrays of 0..n booleans
BoolArrays(n) == UNION {{Arr([k \in 1..m |-> Bool(f[k])]) : f \in [1..m -> BOOLEAN]} : m \in 0..n}

\* index values a stored campaign can hold: numbers below, in and above the
\* range of every list
StoredIndexNumbers == {Num(n) : n \in (0 - 2)..(MaxLoadPhotos + 1)}

\* stored index values that are no numbers
StoredIndexOthers ==
  {JNull, Bool(TRUE), Str(<<"x">>), Str(<<"1">>), Arr(<<>>), Obj(<<>>)}

\* stored solved values that are no arrays of booleans
StoredSolvedOthers ==
  {JNull, Num(1), Str(<<"a", "b">>), Arr(<<Num(1), Num(0)>>),
   Arr(<<JNull, Bool(TRUE)>>), Obj(<<Prop(<<"0">>, Bool(TRUE))>>)}

\* campaign states as the component writes them, for lists that are shorter,
\* as long or longer than the current one
WellFormedValues ==
  {campaignObject(i, s) : i \in StoredIndexNumbers, s \in BoolArrays(MaxLoadPhotos + 1)}

\* values that are no campaign state
MalformedValues ==
  {JNull, Num(7), Bool(TRUE), Str(<<"x">>), Arr(<<>>), Arr(<<Bool(TRUE)>>), Obj(<<>>)}
  \cup {Obj(<<Prop(KeyIndex, i)>>) : i \in StoredIndexNumbers \cup StoredIndexOthers}
  \cup {Obj(<<Prop(KeySolved, s)>>) : s \in BoolArrays(MaxLoadPhotos) \cup StoredSolvedOthers}
  \cup {campaignObject(i, s) : i \in StoredIndexOthers, s \in BoolArrays(MaxLoadPhotos)}
  \cup {campaignObject(i, s) : i \in StoredIndexNumbers, s \in StoredSolvedOthers}
  \cup {campaignObject(i, s) : i \in StoredIndexOthers, s \in StoredSolvedOthers}

\* texts JSON.parse rejects: "", "{", "[true", "1 2", {"index":}, "]"
UnparsableTexts ==
  {<<>>, <<P("{")>>, <<P("["), Bool(TRUE)>>, <<Num(1), Num(2)>>,
   <<P("{"), Str(KeyIndex), P(":"), P("}")>>, <<P("]")>>}

StoredItems ==
  {NoItem}
  \cup {<<JSONstringify(value)>> : value \in WellFormedValues \cup MalformedValues}
  \cup {<<text>> : text \in UnparsableTexts}

InitLoadCall ==
  /\ loadPhotos \in LoadPhotoLists
  /\ loadItem \in StoredItems
  /\ loadOut = <<>>
  /\ loadDone = FALSE

CallLoadCampaign ==
  /\ ~loadDone
  /\ loadOut' = loadCampaign(Len(loadPhotos), loadItem)
  /\ loadDone' = TRUE
  /\ UNCHANGED <<loadPhotos, loadItem>>
  /\ UNCHANGED notLoadVars

NextLoad == CallLoadCampaign

---------------------------------------------------------------------------
(* DoggoGames: the photo list and PhotoLoader *)

\* image references, as the characters of the string: the initial photos
\* and the data URLs of uploaded files
AppInitialPhotos == << <<"m", "1">>, <<"m", "2">> >>
UploadRefs == { <<"u", "1">>, <<"u", "2">> }
\* what the files of the input can be: an upload can give a reference that
\* is in the list already
FileRefs == {AppInitialPhotos[1]} \cup UploadRefs

\* mutant: nothing is removed
ArrayFromSet_Keep(list) == list

\* Array.from(new Set(list)): the first occurrence of every element, in order
RECURSIVE ArrayFromSet(_)
ArrayFromSet(list) ==
  IF Len(list) = 0 THEN <<>>
  ELSE LET front == ArrayFromSet(SubSeq(list, 1, Len(list) - 1))
       IN  IF list[Len(list)] \in Range(front) THEN front
           ELSE Append(front, list[Len(list)])

\* loadUserPhotos(), item the entry of localStorage under LS_USER_PHOTOS_KEY
loadUserPhotos(item) ==
  IF item = NoItem THEN <<>>
  ELSE IF Len(item[1]) = 0 THEN <<>>
  ELSE LET r == JSONparse(item[1])
       IN  IF ~r.ok THEN <<>>
           ELSE IF r.val.t = "array"
           THEN [k \in 1..Len(r.val.a) |-> r.val.a[k].s]
           ELSE <<>>

\* the item saveUserPhotos(urls) writes
saveUserPhotos(urls) ==
  <<JSONstringify(Arr([k \in 1..Len(urls) |-> Str(urls[k])]))>>

\* the mount effect of DoggoGames
mergeStored(prev, item) ==
  LET stored == loadUserPhotos(item)
  IN  IF Len(stored) > 0 THEN ArrayFromSet(prev \o stored) ELSE prev

\* addPhotos(urls) in the state app; writeOk is whether localStorage.setItem
\* returns: when it throws, saveUserPhotos throws and setPhotos is not reached
addPhotos(app, urls, writeOk) ==
  LET currentStored == loadUserPhotos(app.store)
      mergedStored == ArrayFromSet(currentStored \o urls)
  IN  IF writeOk
      THEN [photos |-> ArrayFromSet(app.photos \o urls),
            store |-> saveUserPhotos(mergedStored),
            threw |-> FALSE]
      ELSE [photos |-> app.photos, store |-> app.store, threw |-> TRUE]

App == [photos |-> appPhotos, store |-> userStore, threw |-> addThrew]

\* the files of one change event of the input
MaxBatch == 2
FileBatches ==
  UNION {[1..n -> FileRefs] : n \in 1..MaxBatch}

LoaderIdle ==
  /\ ldFiles = <<>>
  /\ ldReads = <<>>
  /\ ldUrls = <<>>
  /\ ldBusy = FALSE
  /\ addCalled = FALSE
  /\ addUrls = <<>>
  /\ addThrew = FALSE

InitApp ==
  /\ appPhotos = mergeStored(AppInitialPhotos, NoItem)
  /\ userStore = NoItem
  /\ LoaderIdle

\* onChange up to its first await: the files are taken, the first is read
PickFiles(files) ==
  /\ ~ldBusy
  /\ Len(files) > 0
  /\ ldFiles' = files
  /\ ldReads' = <<>>
  /\ ldUrls' = <<>>
  /\ ldBusy' = TRUE
  /\ UNCHANGED <<appPhotos, userStore, addCalled, addUrls, addThrew>>
  /\ UNCHANGED notAppVars

\* mutant: a file that cannot be read ends the loop
afterRead_Abort(files, reads, urls, ok) ==
  [reads |-> Append(reads, ok),
   urls |-> IF ok THEN Append(urls, files[Len(reads) + 1]) ELSE urls,
   more |-> ok /\ Len(reads) + 1 < Len(files)]

\* the loop of onChange after the read of the next file has settled: a data
\* URL is pushed, a rejection is caught and the file skipped
afterRead(files, reads, urls, ok) ==
  [reads |-> Append(reads, ok),
   urls |-> IF ok THEN Append(urls, files[Len(reads) + 1]) ELSE urls,
   more |-> Len(reads) + 1 < Len(files)]

\* onChange resumes after an await; after the last file it calls onAdd, which
\* is addPhotos, when dataUrls is not empty
ReadFile(ok, writeOk) ==
  /\ ldBusy
  /\ \E r \in {afterRead(ldFiles, ldReads, ldUrls, ok)} :
       /\ ldReads' = r.reads
       /\ ldUrls' = r.urls
       /\ ldBusy' = r.more
       /\ UNCHANGED ldFiles
       /\ IF r.more
          THEN UNCHANGED <<appPhotos, userStore, addCalled, addUrls, addThrew>>
          ELSE IF Len(r.urls) > 0
          THEN \E a \in {addPhotos(App, r.urls, writeOk)} :
                 /\ appPhotos' = a.photos
                 /\ userStore' = a.store
                 /\ addThrew' = a.threw
                 /\ addCalled' = TRUE
                 /\ addUrls' = r.urls
          ELSE /\ addCalled' = FALSE
               /\ UNCHANGED <<appPhotos, userStore, addUrls, addThrew>>
  /\ UNCHANGED notAppVars

\* the page is loaded again: useState(initialPhotos), then the mount effect
AppReload ==
  /\ appPhotos' = mergeStored(AppInitialPhotos, userStore)
  /\ UNCHANGED userStore
  /\ ldFiles' = <<>>
  /\ ldReads' = <<>>
  /\ ldUrls' = <<>>
  /\ ldBusy' = FALSE
  /\ addCalled' = FALSE
  /\ addUrls' = <<>>
  /\ addThrew' = FALSE
  /\ UNCHANGED notAppVars

NextPhotos ==
  \/ \E files \in FileBatches : PickFiles(files)
  \/ \E ok \in BOOLEAN, writeOk \in BOOLEAN : ReadFile(ok, writeOk)
  \/ AppReload

---------------------------------------------------------------------------
(* Specifications *)

IdleApp ==
  /\ appPhotos = AppInitialPhotos
  /\ userStore = NoItem
  /\ LoaderIdle

IdlePuzzle ==
  /\ puzPhotos = PuzzlePhotos
  /\ grid = DefaultGrid
  /\ campaign = [index |-> 0, solved |-> [k \in 0..(Len(PuzzlePhotos) - 1) |-> FALSE]]
  /\ img = ""
  /\ tiles = <<>>
  /\ selectedOrder = Null
  /\ dragging = NotDragging
  /\ prevSolvedRef = FALSE
  /\ showCongrats = FALSE
  /\ progStore = <<>>

IdleRun ==
  /\ runGrid = 2
  /\ runArr = <<>>
  /\ runI = 0
  /\ runTiles = <<>>
  /\ runDone = TRUE

IdleSwapCall ==
  /\ swapTiles = <<>>
  /\ swapFrom = 0
  /\ swapTo = 0
  /\ swapOut = <<>>
  /\ swapCalls = 2

IdleSolvedCall ==
  /\ solvedTiles = <<>>
  /\ solvedOut = FALSE
  /\ solvedDone = TRUE

IdleLoadCall ==
  /\ loadPhotos = <<>>
  /\ loadItem = <<>>
  /\ loadOut = <<>>
  /\ loadDone = TRUE

IdleHashCall ==
  /\ hashLists = <<>>
  /\ hashKeys = <<>>
  /\ hashDone = TRUE

IdleDeckCall ==
  /\ callPhotos = InitialPhotos
  /\ callPairs = 1
  /\ callDeck = <<>>
  /\ callDone = TRUE

IdleMemory ==
  /\ mounted = FALSE
  /\ photos = InitialPhotos
  /\ difficulty = "medium" /\ deck = <<>> /\ flipped = <<>>
  /\ hasStarted = FALSE /\ finished = FALSE /\ moves = 0
  /\ locked = FALSE /\ lockedRef = FALSE /\ timers = {}
  /\ elapsed = 0 /\ best = [d \in DifficultyKey |-> NoItem]
  /\ cancelled = 0

InitSpecMemory ==
  /\ InitMemory
  /\ IdleDeckCall
  /\ IdlePuzzle
  /\ IdleRun
  /\ IdleSwapCall
  /\ IdleSolvedCall
  /\ IdleLoadCall
  /\ IdleHashCall
  /\ IdleApp

SpecMemory == InitSpecMemory /\ [][NextMemory]_vars

InitSpecDeck ==
  /\ InitDeckCall
  /\ IdleMemory
  /\ IdlePuzzle
  /\ IdleRun
  /\ IdleSwapCall
  /\ IdleSolvedCall
  /\ IdleLoadCall
  /\ IdleHashCall
  /\ IdleApp

NextDeck == CallCreateMemoryDeck

SpecDeck == InitSpecDeck /\ [][NextDeck]_vars


InitSpecGame ==
  /\ InitGame
  /\ IdleDeckCall
  /\ IdlePuzzle
  /\ IdleRun
  /\ IdleSwapCall
  /\ IdleSolvedCall
  /\ IdleLoadCall
  /\ IdleHashCall
  /\ IdleApp

SpecGame == InitSpecGame /\ [][NextGame]_vars


InitSpecPuzzle ==
  /\ InitPuzzle
  /\ IdleDeckCall
  /\ IdleMemory
  /\ IdleRun
  /\ IdleSwapCall
  /\ IdleSolvedCall
  /\ IdleLoadCall
  /\ IdleHashCall
  /\ IdleApp

SpecPuzzle == InitSpecPuzzle /\ [][NextPuzzle]_vars

\* the campaign under taps on cells, the dialog, the level buttons, mounts
\* and a growing photo list
NextCampaign ==
  \/ \E order \in TouchCells(grid) : CellClick(order)
  \/ \E value \in Range(puzPhotos) : SelectImg(value)
  \/ NextLevel
  \/ CloseCongrats
  \/ ResetCampaign
  \/ PuzzleRemount
  \/ \E added \in AddedPhotos : PhotosChange(added)

SpecCampaign == InitSpecPuzzle /\ [][NextCampaign]_vars

InitSpecPhotos ==
  /\ InitApp
  /\ IdleDeckCall
  /\ IdleMemory
  /\ IdlePuzzle
  /\ IdleRun
  /\ IdleSwapCall
  /\ IdleSolvedCall
  /\ IdleLoadCall
  /\ IdleHashCall

SpecPhotos == InitSpecPhotos /\ [][NextPhotos]_vars

InitSpecShuffle ==
  /\ InitRun
  /\ IdleDeckCall
  /\ IdleMemory
  /\ IdlePuzzle
  /\ IdleSwapCall
  /\ IdleSolvedCall
  /\ IdleLoadCall
  /\ IdleHashCall
  /\ IdleApp

SpecShuffle == InitSpecShuffle /\ [][NextRun]_vars

InitSpecSwap ==
  /\ InitSwapCall
  /\ IdleDeckCall
  /\ IdleMemory
  /\ IdlePuzzle
  /\ IdleRun
  /\ IdleSolvedCall
  /\ IdleLoadCall
  /\ IdleHashCall
  /\ IdleApp

SpecSwap == InitSpecSwap /\ [][NextSwap]_vars

\* the timeouts of window.setTimeout fire: a pending timeout does not stay
\* pending for ever
TimersFire == WF_vars(\E t \in timers : TimerFire(t))

\* one mounted component: clicks, timeouts and the reshuffle button
NextLock ==
  \/ \E idx \in DOMAIN deck : Click(idx)
  \/ \E t \in timers : TimerFire(t)
  \/ Reshuffle

SpecLock == InitSpecMemory /\ [][NextLock]_vars /\ TimersFire

InitSpecSolved ==
  /\ InitSolvedCall
  /\ IdleDeckCall
  /\ IdleMemory
  /\ IdlePuzzle
  /\ IdleRun
  /\ IdleSwapCall
  /\ IdleLoadCall
  /\ IdleHashCall
  /\ IdleApp

SpecSolved == InitSpecSolved /\ [][NextSolved]_vars

InitSpecHash ==
  /\ InitHashCall
  /\ IdleDeckCall
  /\ IdleMemory
  /\ IdlePuzzle
  /\ IdleRun
  /\ IdleSwapCall
  /\ IdleSolvedCall
  /\ IdleLoadCall
  /\ IdleApp

SpecHash == InitSpecHash /\ [][NextHash]_vars

InitSpecLoad ==
  /\ InitLoadCall
  /\ IdleDeckCall
  /\ IdleMemory
  /\ IdlePuzzle
  /\ IdleRun
  /\ IdleSwapCall
  /\ IdleSolvedCall
  /\ IdleHashCall
  /\ IdleApp

SpecLoad == InitSpecLoad /\ [][NextLoad]_vars

---------------------------------------------------------------------------
(* Properties of the memory game *)

\* C1 (SpecDeck): for pairs p >= 1 and a non-empty photo list, the deck
\* createMemoryDeck returns has exactly 2p cards at positions 0..2p-1, carries
\* exactly the pair ids 0..p-1, each on exactly two cards, every card is
\* face-down and unmatched, and the card at position i has index = i.
C1_DeckShape ==
  callDone =>
    /\ DOMAIN callDeck = 0..(2 * callPairs - 1)
    /\ ArrLen(callDeck) = 2 * callPairs
    /\ {callDeck[i].id : i \in DOMAIN callDeck} = 0..(callPairs - 1)
    /\ \A k \in 0..(callPairs - 1) :
          Cardinality({i \in DOMAIN callDeck : callDeck[i].id = k}) = 2
    /\ \A i \in DOMAIN callDeck :
          /\ ~callDeck[i].flipped /\ ~callDeck[i].matched
          /\ callDeck[i].index = i

\* a deck of MaxPairs pairs over a single photo whose order the shuffle changed
C1_Witness ==
  /\ callDone /\ callPairs = MaxPairs /\ Len(callPhotos) = 1
  /\ callDeck[0].id # 0 /\ callDeck[1].id # callDeck[0].id

\* the cards that are face-up and not matched
faceUpUnmatched(d) == {i \in DOMAIN d : d[i].flipped /\ ~d[i].matched}

\* a step that flips a second card
SecondFlip == Len(flipped) = 1 /\ Len(flipped') = 2

\* a step in which the pending timeout t fires
Fires(t) == t \in timers /\ t \notin timers' /\ mounted /\ mounted'

\* C2 (SpecGame): when the second card flipped has the pair id of the first,
\* the match callback is scheduled for the two; when it fires both cards are
\* matched; and a matched card stays matched and face-up in every later state
\* of the game, whatever is flipped afterwards.
C2_Step ==
  /\ (SecondFlip /\ deck'[flipped'[1]].id = deck'[flipped'[2]].id) =>
        timers' = {Timer("match", flipped'[1], flipped'[2], MatchDelay)}
  /\ \A t \in timers : (t.kind = "match" /\ Fires(t)) =>
        /\ deck'[t.a].matched /\ deck'[t.a].flipped
        /\ deck'[t.b].matched /\ deck'[t.b].flipped
  /\ \A i \in DOMAIN deck : deck[i].matched =>
        deck'[i].matched /\ deck'[i].flipped

C2_MatchedForGood == [][C2_Step]_vars

\* a pair is matched and a later, differing pair of cards is face-up
C2_Witness ==
  /\ \E i \in DOMAIN deck : deck[i].matched
  /\ \E t \in timers : t.kind = "mismatch"

\* C3 (SpecGame): when the second card flipped has another pair id than the
\* first, the mismatch callback is scheduled for the two; when it fires both
\* cards are face-down and unmatched, the flipped list is empty, and the
\* flipped and matched flags of every other card are as before.
C3_Step ==
  /\ (SecondFlip /\ deck'[flipped'[1]].id # deck'[flipped'[2]].id) =>
        timers' = {Timer("mismatch", flipped'[1], flipped'[2], MismatchDelay)}
  /\ \A t \in timers : (t.kind = "mismatch" /\ Fires(t)) =>
        /\ ~deck'[t.a].flipped /\ ~deck'[t.a].matched
        /\ ~deck'[t.b].flipped /\ ~deck'[t.b].matched
        /\ flipped' = <<>>
        /\ \A i \in DOMAIN deck \ {t.a, t.b} :
              /\ deck'[i].flipped = deck[i].flipped
              /\ deck'[i].matched = deck[i].matched

C3_MismatchFlipsBack == [][C3_Step]_vars

\* one pair was matched and two mismatches were resolved: nothing is face-up
\* but the matched pair
C3_Witness ==
  /\ moves = 3 /\ flipped = <<>> /\ timers = {}
  /\ Cardinality({i \in DOMAIN deck : deck[i].matched}) = 2
  /\ \A i \in DOMAIN deck : deck[i].flipped = deck[i].matched

\* C4 (SpecMemory): a click on card idx changes nothing of the game (deck,
\* flipped list, moves, started flag, lock, pending timers, and the rest of
\* the component's state) when the game is finished, or the board is locked,
\* or two cards are in the flipped list, or the card is matched or face-up.
C4_RejectedClickIsNoOp ==
  mounted =>
    \A idx \in DOMAIN deck :
      (\/ finished \/ locked
       \/ Len(flipped) >= 2
       \/ deck[idx].matched \/ deck[idx].flipped)
      => commit(Mem, onCardClick(Mem, idx)) = Mem

\* one card is face-up, a pair is matched, and the board is not locked: only
\* the flags of the clicked card can reject the click
C4_Witness ==
  /\ mounted /\ ~finished /\ ~locked /\ Len(flipped) = 1
  /\ \E i \in DOMAIN deck : deck[i].matched

\* C5 (SpecMemory): from the second flip until its callback has run (two
\* cards in the flipped list, one timeout pending) the board is locked and
\* no click changes the deck; at most two cards are face-up and unmatched.
C5_LockedWhileResolving ==
  /\ (timers # {}) <=> (mounted /\ Len(flipped) = 2)
  /\ Len(flipped) = 2 =>
        /\ locked /\ lockedRef
        /\ \A idx \in DOMAIN deck : onCardClick(Mem, idx).deck = deck
  /\ Cardinality(faceUpUnmatched(deck)) <= 2

\* two differing cards are face-up and a third card could be clicked
C5_Witness ==
  /\ Len(flipped) = 2 /\ lockedRef
  /\ \E t \in timers : t.kind = "mismatch"
  /\ \E i \in DOMAIN deck : ~deck[i].flipped /\ ~deck[i].matched

\* C6 (SpecMemory): no timeout scheduled in a game that a new game or an
\* unmount ended is still pending, so none can run against a later game; an
\* unmounted component has no pending timeout.
C6_NoStaleTimer ==
  /\ \A t \in timers : ~t.superseded
  /\ ~mounted => timers = {}

\* a new game whose start cancelled a pending timeout
C6_Witness ==
  /\ mounted /\ cancelled > 0
  /\ timers = {} /\ ~lockedRef /\ flipped = <<>>

---------------------------------------------------------------------------
(* Properties of the tile puzzle *)

\* the orders of the tiles, each once, are the positions 0..n-1
isPermutation(t) ==
  /\ {t[i].order : i \in DOMAIN t} = 0..(ArrLen(t) - 1)
  /\ \A i, j \in DOMAIN t : t[i].order = t[j].order => i = j

\* C7: in every state of the puzzle with a non-empty set of n = grid * grid
\* tiles, tile id -> order is a permutation of 0..n-1: every position holds
\* exactly one tile, whatever new games, grid-size changes, tap swaps and drag
\* swaps came before
C7_OrdersArePermutation ==
  (ArrLen(tiles) > 0 /\ ArrLen(tiles) = grid * grid) =>
     /\ \A i \in DOMAIN tiles : tiles[i].id = i
     /\ isPermutation(tiles)

\* C8: for every grid size g >= 2 and every outcome of the shuffle, the tiles
\* startNew sets are not solved: some tile has id # order; the outcome that is
\* the identity is replaced by its reversal
C8_FreshTilesNotSolved ==
  runDone =>
     /\ ArrLen(runTiles) = runGrid * runGrid
     /\ ~isSolved(runTiles)
     /\ \E i \in DOMAIN runTiles : runTiles[i].id # runTiles[i].order
     /\ ordersOf(runTiles) = IF isIdentity(runArr) THEN reverse(runArr) ELSE runArr

\* the shuffle of a 3 x 3 board came out as the identity: the tiles are set in
\* reverse order, with the middle tile in its place
C8_Witness ==
  /\ runDone
  /\ runGrid = 3
  /\ isIdentity(runArr)
  /\ runTiles[0].order = 8
  /\ runTiles[4].order = 4

\* C9: for distinct positions a and b, next to each other or not, onSwap(a, b)
\* moves the tile at a to b and the tile at b to a and leaves the order of
\* every other tile, and the id and bgPos of every tile, as they were;
\* onSwap(a, a) changes nothing
C9_SwapExchangesTwoTiles ==
  swapCalls = 1 =>
     IF swapFrom = swapTo THEN swapOut = swapTiles
     ELSE /\ DOMAIN swapOut = DOMAIN swapTiles
          /\ \A i \in DOMAIN swapTiles :
                /\ swapOut[i].id = swapTiles[i].id
                /\ swapOut[i].bgPos = swapTiles[i].bgPos
                /\ swapTiles[i].order = swapFrom => swapOut[i].order = swapTo
                /\ swapTiles[i].order = swapTo => swapOut[i].order = swapFrom
                /\ swapTiles[i].order \notin {swapFrom, swapTo} =>
                      swapOut[i].order = swapTiles[i].order

\* two opposite corners of a 3 x 3 board have been swapped
C9_Witness ==
  /\ swapCalls = 1
  /\ ArrLen(swapTiles) = 9
  /\ swapFrom = 0 /\ swapTo = 8
  /\ \E i, j \in DOMAIN swapTiles :
        /\ swapTiles[i].order = 0 /\ swapOut[i].order = 8
        /\ swapTiles[j].order = 8 /\ swapOut[j].order = 0

\* C10: for every tile permutation and all positions a and b, onSwap(a, b)
\* called twice in a row gives the tile set it started from
C10_SwapTwiceRestores ==
  swapCalls = 2 => swapOut = swapTiles

\* a swap of two different positions, which changes the board, has been made
\* twice
C10_Witness ==
  /\ swapCalls = 2
  /\ swapFrom # swapTo
  /\ isPermutation(swapTiles)
  /\ onSwap(swapTiles, swapFrom, swapTo) # swapTiles
  /\ swapOut = swapTiles

\* C11: isSolved(tiles) is true if and only if the tile set is not empty and
\* every tile has id = order; for the empty tile set it is false
C11_SolvedIffAllInPlace ==
  solvedDone =>
     (solvedOut <=> (ArrLen(solvedTiles) # 0
                       /\ {i \in DOMAIN solvedTiles :
                             solvedTiles[i].id # solvedTiles[i].order} = {}))

\* isSolved has returned false for the empty tile set
C11_Witness ==
  /\ solvedDone
  /\ ArrLen(solvedTiles) = 0
  /\ solvedOut = FALSE

---------------------------------------------------------------------------
(* Properties of the campaign *)

\* the step takes the board from unsolved to solved
Completes == ~isSolved(tiles) /\ isSolved(tiles')

lastIndex == Len(puzPhotos) - 1

C12_Step ==
  /\ Completes => campaign'.index = campaign.index
  /\ campaign'.index # campaign.index =>
        \/ NextLevel
        \/ \E value \in Range(puzPhotos) : SelectImg(value)
        \/ ResetCampaign
  /\ NextLevel => campaign'.index = campaign.index + 1
  /\ campaign.index >= lastIndex =>
        handleNextLevel(Puz).campaign.index = campaign.index

\* C12: completing the puzzle of image i does not change the campaign index;
\* the index stays i until handleNextLevel sets it to i + 1 (or the player
\* picks an image); at the last image handleNextLevel leaves the index alone
C12_IndexMovesOnAdvanceOnly == [][C12_Step]_vars

\* the first image has been completed and the campaign still points at it
C12_Witness ==
  /\ isSolved(tiles)
  /\ showCongrats
  /\ campaign.index = 0
  /\ campaign.solved[0]
  /\ ~campaign.solved[1]

\* C13: once image i is flagged solved, solved[i] stays true through advancing,
\* picking an image, reshuffling, changing the grid, further swaps and
\* re-solves; only resetting the campaign is not such a step
C13_SolvedFlagStays ==
  [][ResetCampaign \/ \A k \in DOMAIN campaign.solved :
                        campaign.solved[k] =>
                          k \in DOMAIN campaign'.solved /\ campaign'.solved[k]]_vars

\* both images are flagged, the player is back at the first one on an
\* unsolved board
C13_Witness ==
  /\ campaign.solved[0] /\ campaign.solved[1]
  /\ campaign.index = 0
  /\ ~isSolved(tiles)
  /\ ~showCongrats

\* C14: each step that takes the board from unsolved to solved flags the
\* current campaign image as solved, leaves every other flag as it was and
\* opens the level-complete dialog
C14_CompletionFlagsCurrent ==
  [][Completes =>
       /\ campaign'.solved = [campaign.solved EXCEPT ![campaign.index] = TRUE]
       /\ showCongrats']_vars

\* the second image has been completed while the first has not
C14_Witness ==
  /\ isSolved(tiles)
  /\ showCongrats
  /\ campaign.index = 1
  /\ campaign.solved[1]
  /\ ~campaign.solved[0]


---------------------------------------------------------------------------
(* Properties of the campaign store *)

\* C20 (SpecHash): the campaign storage key is a function of the ordered
\* photo list, and two distinct photo lists never yield the same key.
C20_DistinctListsDistinctKeys ==
  hashDone =>
    /\ hashLists[1] = hashLists[2] => hashKeys[1] = hashKeys[2]
    /\ hashLists[1] # hashLists[2] => hashKeys[1] # hashKeys[2]

\* the value stored under the campaign key, where the item is a JSON text
storedValue == JSONparse(loadItem[1]).val

\* the stored item is the JSON text of an object
storedIsObject ==
  /\ loadItem # NoItem
  /\ JSONparse(loadItem[1]).ok
  /\ storedValue.t = "object"

\* the stored item is a campaign state: an object with a numeric index and an
\* array of booleans as solved
storedIsCampaign ==
  /\ storedIsObject
  /\ getProp(storedValue, KeyIndex).t = "number"
  /\ getProp(storedValue, KeySolved).t = "array"
  /\ \A k \in 1..Len(getProp(storedValue, KeySolved).a) :
        getProp(storedValue, KeySolved).a[k].t = "boolean"

\* C18 (SpecLoad): for every photo list of length len and every persisted
\* index value (negative, in range, or >= len), the index loadCampaign
\* returns lies in 0..len-1, and the solved array it returns has exactly len
\* entries.
C18_IndexClamped ==
  loadDone =>
    /\ DOMAIN loadOut.solved = 1..Len(loadPhotos)
    /\ (storedIsObject /\ getProp(storedValue, KeyIndex).t = "number") =>
          /\ loadOut.index.t = "number"
          /\ loadOut.index.n \in 0..(Len(loadPhotos) - 1)

\* a stored index above the range and a stored solved array longer than the
\* list: the index is the last one, the flags are cut to the list
C18_Witness ==
  /\ loadDone
  /\ Len(loadPhotos) = 2
  /\ storedIsCampaign
  /\ getProp(storedValue, KeyIndex).n > Len(loadPhotos) - 1
  /\ Len(getProp(storedValue, KeySolved).a) > Len(loadPhotos)
  /\ loadOut.index = Num(1)
  /\ Len(loadOut.solved) = 2

\* C19 (SpecLoad): for every persisted value under the campaign key that is
\* no well-formed campaign state (unparsable text, a non-object, a
\* non-numeric index, a non-array or non-boolean solved field), loadCampaign
\* returns the defaults: index 0 and all solved flags false.
C19_MalformedDiscarded ==
  (loadDone /\ loadItem # NoItem /\ ~storedIsCampaign) =>
    loadOut = defaultCampaign(Len(loadPhotos))

\* the campaign state a mount of the component loads from the store
reloaded == mountPuzzle(progStore, puzPhotos, <<>>).campaign

\* C15 (SpecPuzzle): the campaign state survives a reload: in every state
\* reached with photo list P, mounting the component again with the same
\* list loads exactly the current index and the current solved flags from
\* the store.
C15_ReloadRestoresCampaign ==
  /\ reloaded.index = campaign.index
  /\ reloaded.solved = campaign.solved

\* the second image is current and the first one is flagged solved: a reload
\* loads that state, not the defaults
C15_Witness ==
  /\ campaign.index = 1
  /\ campaign.solved[0]
  /\ ~campaign.solved[1]
  /\ reloaded = campaign
  /\ reloaded # campaignState(defaultCampaign(Len(puzPhotos)), Len(puzPhotos))

---------------------------------------------------------------------------
(* Properties of the best time and of matched cards *)

\* the step completes the game: the last pair is marked matched
CompletesGame ==
  /\ mounted /\ mounted'
  /\ ArrLen(deck') > 0 /\ allMatched(deck')
  /\ ~allMatched(deck)

C16_Step ==
  /\ CompletesGame =>
        /\ finished'
        /\ best' = [best EXCEPT ![difficulty] =
                      IF @ = NoItem \/ elapsed < @[1] THEN <<elapsed>> ELSE @]
  /\ \A d \in DifficultyKey :
        best[d] # NoItem => best'[d] # NoItem /\ best'[d][1] <= best[d][1]

MatchedIsFlipped == \A i \in DOMAIN deck : deck[i].matched => deck[i].flipped

\* the step belongs to the game in progress: a card click, a timer callback
\* or a frame of the stopwatch, not a new deck
SameGameStep ==
  \/ \E idx \in DOMAIN deck : Click(idx)
  \/ \E t \in timers : TimerFire(t)
  \/ Tick

C17_Step ==
  SameGameStep =>
    \A i \in DOMAIN deck : (deck[i].matched /\ deck[i].flipped) => deck'[i].flipped

\* C17 (SpecMemory): in every reachable state of a memory game every matched
\* card is also face-up (matched implies flipped), and no operation within
\* the same game turns a matched card face-down.
C17_MatchedStaysFaceUp == [](MatchedIsFlipped) /\ [][C17_Step]_vars

\* a pair is matched and face-up, and the two cards of a mismatch that came
\* after it have been turned face-down again
C17_Witness ==
  /\ mounted
  /\ \E i \in DOMAIN deck : deck[i].matched /\ deck[i].flipped
  /\ moves >= 2
  /\ timers = {}
  /\ flipped = <<>>
  /\ \E j \in DOMAIN deck : ~deck[j].flipped

---------------------------------------------------------------------------
(* Properties of new games *)

\* the step starts a new game: the reshuffle button, a difficulty change or a
\* change of the photo list under the mounted component
NewGameStep ==
  \/ Reshuffle
  \/ \E d \in DifficultyKey : SetDifficulty(d)
  \/ mounted /\ PhotosChanged

C26_Step ==
  NewGameStep =>
    /\ \A i \in DOMAIN deck' : ~deck'[i].flipped /\ ~deck'[i].matched
    /\ flipped' = <<>>
    /\ moves' = 0
    /\ ~locked' /\ ~lockedRef'
    /\ ~finished'
    /\ \A idx \in DOMAIN deck' : ~clickRejected(Mem', idx)

\* C26 (SpecMemory): after every start of a new memory game, whatever
\* triggered it (reshuffle button, difficulty change, photo-list change) and
\* whatever the previous state was (a finished game included), the settled
\* state has every card face-down and unmatched, an empty flipped list,
\* moves = 0, the board unlocked and finished = false, so the first card
\* click is accepted.
C26_NewGameIsFresh == [][C26_Step]_vars

C27_Step ==
  \A d \in DifficultyKey :
    best'[d] # best[d] =>
      /\ CompletesGame
      /\ difficulty = d /\ difficulty' = d
      /\ best'[d] = <<elapsed>>

\* C27 (SpecMemory): the best-time entry of a difficulty d is only ever
\* written with the elapsed time of a game that was played and completed at
\* difficulty d; changing the difficulty after a game has finished never
\* writes that game's time under the new difficulty's key.
C27_BestWrittenByOwnGame == [][C27_Step]_vars

\* C28 (SpecLock): every lock of the memory board is eventually
\* released: whenever the board is locked by a second flip, then (timers
\* fire) it later is unlocked with an empty flipped list, by the match or
\* mismatch callback or by a new game; and the board is locked exactly when
\* one resolution timer is pending.
C28_LockReleased ==
  /\ [](locked <=> Cardinality(timers) = 1)
  /\ [](lockedRef <=> locked)
  /\ (locked /\ Len(flipped) = 2) ~> (~locked /\ flipped = <<>>)

\* the board is locked by a second flip, its timer pending
C28_Witness ==
  /\ mounted
  /\ locked
  /\ Len(flipped) = 2
  /\ Cardinality(timers) = 1

---------------------------------------------------------------------------
(* Properties of taps, the dialog and the stored grid *)

\* C23 (SpecPuzzle): tap-to-swap: with no cell selected, tapping the cell at
\* position a (pointer down, pointer up without movement, click) and then
\* tapping the cell at a different position b exchanges the tiles at a and b
\* and leaves no cell selected.
C23_TapTapSwaps ==
  (selectedOrder = Null /\ ~dragging.active /\ isPermutation(tiles)) =>
    \A a, b \in 0..(grid * grid - 1) :
      a # b =>
        /\ tap(tap(Puz, a), b).tiles = onSwap(tiles, a, b)
        /\ tap(tap(Puz, a), b).selectedOrder = Null

\* C29 (SpecPuzzle): whenever the level-complete dialog is open, the board
\* on display is solved and the current campaign image is flagged solved,
\* also after the campaign is reset from the dialog of the last level.
C29_DialogOverSolvedBoard ==
  showCongrats =>
    /\ isSolved(tiles)
    /\ campaign.index \in DOMAIN campaign.solved
    /\ campaign.solved[campaign.index]

\* C22 (SpecPuzzle): the last-used grid size is persisted and restored: when
\* the puzzle component is mounted again, the grid size in effect once the
\* mount effects have run is the grid size that was in use before.
C22_GridRestored == mountGrid(progStore) = grid

\* C30 (SpecCampaign): in every settled state the entry stored under the key
\* of the current photo list is the campaign in memory, the campaign index
\* is an index of the photo list and the solved array has one flag per
\* photo, also after the photo list has changed.
C30_StoreIsCampaign ==
  /\ getItem(progStore, ProgKeyTable[puzPhotos]) = <<JSONstringify(campaignValue(campaign))>>
  /\ campaign.index \in 0..(Len(puzPhotos) - 1)
  /\ DOMAIN campaign.solved = 0..(Len(puzPhotos) - 1)

---------------------------------------------------------------------------
(* Properties of the photo list and of uploads *)

NoReferenceTwice(list) == \A i, j \in DOMAIN list : list[i] = list[j] => i = j

IsPrefix(a, b) == Len(a) <= Len(b) /\ SubSeq(b, 1, Len(a)) = a

\* a step in which onChange calls onAdd, that is addPhotos
CallsAddPhotos == ldBusy /\ ~ldBusy' /\ addCalled'

C21_Step ==
  /\ IsPrefix(appPhotos, appPhotos')
  /\ IsPrefix(loadUserPhotos(userStore), loadUserPhotos(userStore'))
  /\ (CallsAddPhotos /\ addCalled /\ ~addThrew /\ Range(addUrls') \subseteq Range(addUrls))
       => (appPhotos' = appPhotos /\ userStore' = userStore)

\* C21 (SpecPhotos): photo insertion deduplicates: after any sequence of
\* addPhotos calls and merges of the stored user photos at mount, neither the
\* photo list in memory nor the stored list of user photos holds a reference
\* twice; every step leaves the photos that are present at their positions;
\* and adding references that the call before has added changes nothing.
C21_InsertionDeduplicates ==
  [](NoReferenceTwice(appPhotos) /\ NoReferenceTwice(loadUserPhotos(userStore)))
    /\ [][C21_Step]_vars

\* a batch with the same file twice, one of them new, has been added
C21_Witness ==
  /\ addCalled /\ ~addThrew
  /\ Len(addUrls) = 2 /\ addUrls[1] = addUrls[2]
  /\ addUrls[1] \in UploadRefs
  /\ \E k \in DOMAIN appPhotos : k > Len(AppInitialPhotos) /\ appPhotos[k] = addUrls[1]
  /\ Len(loadUserPhotos(userStore)) = 2

\* the files whose read succeeded, in the order of the batch
RECURSIVE successes(_, _)
successes(files, reads) ==
  IF Len(reads) = 0 THEN <<>>
  ELSE LET front == successes(files, SubSeq(reads, 1, Len(reads) - 1))
       IN  IF reads[Len(reads)] THEN Append(front, files[Len(reads)]) ELSE front

\* the position of the first occurrence of the reference x in list
positionIn(list, x) ==
  CHOOSE k \in DOMAIN list : list[k] = x /\ \A m \in 1..(k - 1) : list[m] # x

\* an onChange call returns: the last read of its batch has settled (a page
\* load drops the call and its files instead)
BatchEnds == ldBusy /\ ~ldBusy' /\ ldFiles' = ldFiles

C24_Step ==
  /\ ldBusy' => (ldFiles' = ldFiles \/ ~ldBusy)
  /\ BatchEnds =>
       /\ Len(ldReads') = Len(ldFiles)
       /\ ldUrls' = successes(ldFiles, ldReads')
       /\ addCalled' <=> (\E k \in DOMAIN ldReads' : ldReads'[k])
       /\ addCalled' => addUrls' = ldUrls'
       /\ ~addCalled' => (appPhotos' = appPhotos /\ userStore' = userStore)
       /\ (addCalled' /\ ~addThrew') =>
            /\ \A k \in DOMAIN ldFiles :
                 ldReads'[k] => ldFiles[k] \in Range(appPhotos')
            /\ \A x, y \in Range(ldUrls') \ Range(appPhotos) :
                 positionIn(ldUrls', x) < positionIn(ldUrls', y)
                   => positionIn(appPhotos', x) < positionIn(appPhotos', y)
            /\ Range(appPhotos') = Range(appPhotos) \cup Range(ldUrls')

\* C24 (SpecPhotos): when some reads of a batch of files fail, the loop goes
\* on to the last file; the files whose read succeeded are handed to onAdd in
\* batch order and are in the photo list after it, the new ones in the order
\* they first occur in the batch; the failing files are left out; onAdd is not called when no read
\* succeeded.
C24_FailedReadsSkipped ==
  [](ldBusy => ldUrls = successes(ldFiles, ldReads)) /\ [][C24_Step]_vars

\* a batch whose first read failed and whose second read gave a new photo
C24_Witness ==
  /\ ~ldBusy /\ ldReads = <<FALSE, TRUE>>
  /\ addCalled /\ ~addThrew /\ addUrls = <<ldFiles[2]>>
  /\ ldFiles[1] # ldFiles[2]
  /\ ldFiles[2] \in UploadRefs
  /\ appPhotos = Append(AppInitialPhotos, ldFiles[2])

\* C25 (SpecPhotos): when the store is unavailable or the write fails,
\* addPhotos still extends the photo list in memory, as it does with a
\* working store.
C25_AddTakesEffectInMemory ==
  [][CallsAddPhotos => appPhotos' = addPhotos(App, addUrls', TRUE).photos]_vars

=========================================================================
